---- MODULE Spec2Model ----
(***************************************************************************)
(* Model of publish.py: the contradiction-scoring engine                   *)
(* (MarketIntelligenceEngine.__init__, ingest_all_data and                 *)
(* calculate_master_divergence_index), the two generators of               *)
(* PublicationGenerator as far as they touch their arguments, and          *)
(* MarketIntelligencePublisher with main; and of analyze_frameworks of     *)
(* Publish.py, the five-framework analysis.                                *)
(*                                                                         *)
(* Spec is the engine under arbitrary snapshots, SpecCaller a caller that  *)
(* keeps a returned result and renders it, SpecPublisher the publisher     *)
(* and the command-line program, SpecVersions the engine of publish.py and *)
(* the analysis of Publish.py given the same snapshots.                    *)
(*                                                                         *)
(* Numbers.  Python floats are modelled as exact rationals, records        *)
(* [n |-> numerator, d |-> denominator] in lowest terms with d > 0, so     *)
(* that equal numbers are equal values.  Sentiment scores are given in     *)
(* hundredths (0.09 is 9, 6.0 is 600); every level the code computes from  *)
(* them is a ratio, so the unit cancels.                                   *)
(*                                                                         *)
(* Dictionaries.  An entry of raw_data is a set: {v} when the key is       *)
(* present with value v, {} when the key is absent, and dict.get(key,      *)
(* default) is Get.                                                        *)
(***************************************************************************)
EXTENDS Integers, Sequences, FiniteSets, TLC

VARIABLES
    contradiction_frameworks,  \* self.contradiction_frameworks of the engine
    raw_data,                  \* the argument of the last scoring pass
    outcome,                   \* how the last scoring pass ended
    earlier,                   \* how the pass before it ended, kept when the
                               \* last pass was given the same argument again
    now,                       \* the last reading of the wall clock
    run,                       \* the last call of publish or run of main:
                               \* its arguments, steps, files and results
    kept,                      \* a returned result that a caller still holds
    analysis                   \* what analyze_frameworks of Publish.py
                               \* returned for raw_data, once it has been
                               \* called on it

vars == <<contradiction_frameworks, raw_data, outcome, earlier, now, run, kept,
          analysis>>

(***************************************************************************)
(* Bounds of the model.                                                    *)
(***************************************************************************)
MaxClock == 1

(***************************************************************************)
(* Exact rational arithmetic.                                              *)
(***************************************************************************)
Abs(x) == IF x < 0 THEN -x ELSE x

RECURSIVE GCD(_, _)
GCD(a, b) == IF b = 0 THEN a ELSE GCD(b, a % b)

\* the rational n/d (d # 0) in lowest terms with a positive denominator
Rat(n, d) ==
    LET g == GCD(Abs(n), Abs(d))
        s == IF d < 0 THEN -1 ELSE 1
    IN  [n |-> (s * n) \div g, d |-> (s * d) \div g]

Whole(k) == [n |-> k, d |-> 1]

RAdd(a, b) == Rat(a.n * b.d + b.n * a.d, a.d * b.d)
RMul(a, b) == Rat(a.n * b.n, a.d * b.d)
RGt(a, b)  == a.n * b.d > b.n * a.d
RMin(a, b) == IF RGt(a, b) THEN b ELSE a
RGe(a, b)  == ~RGt(b, a)
RAbs(a)    == [n |-> Abs(a.n), d |-> a.d]

(***************************************************************************)
(* FrameworkStatus and the framework table built by __init__.              *)
(***************************************************************************)
CRITICAL == "CRITICAL"
WARNING  == "WARNING"
NORMAL   == "NORMAL"

FrameworkStatus == {CRITICAL, WARNING, NORMAL}

\* the keys of contradiction_frameworks, in the insertion order of the dict
FrameworkKeys ==
    << "global_vs_local", "economic_assessment", "credit_vs_fundamentals",
       "risk_vs_activity", "sector_intelligence", "quantitative_regime",
       "us_economic_backdrop" >>

FrameworkNames == {FrameworkKeys[i] : i \in 1..Len(FrameworkKeys)}

ContradictionFramework(name, current_level, threshold, weight, status, implication) ==
    [name |-> name, current_level |-> current_level, threshold |-> threshold,
     weight |-> weight, status |-> status, implication |-> implication]

\* a variant configuration: one threshold and equal weights for all
InitialFrameworks_EqualWeights ==
    [key \in FrameworkNames |->
        ContradictionFramework(key, Whole(0), Whole(50), Rat(1, 7), NORMAL, key)]

InitialFrameworks ==
    [k \in FrameworkNames |->
        CASE k = "global_vs_local" ->
                ContradictionFramework("Global vs Local Sentiment",
                    Whole(0), Whole(100), Rat(20, 100), NORMAL,
                    "Global-local sentiment divergence creating arbitrage opportunities")
          [] k = "economic_assessment" ->
                ContradictionFramework("Economic Assessment vs Reality",
                    Whole(0), Whole(50), Rat(15, 100), NORMAL,
                    "Economic assessments contradicting actual indicator data")
          [] k = "credit_vs_fundamentals" ->
                ContradictionFramework("Credit Markets vs Fundamentals",
                    Whole(0), Whole(25), Rat(15, 100), NORMAL,
                    "Credit spread calculations showing data integrity issues")
          [] k = "risk_vs_activity" ->
                ContradictionFramework("Risk Assessment vs Market Activity",
                    Whole(0), Whole(50), Rat(15, 100), NORMAL,
                    "Risk models disconnected from actual market behavior")
          [] k = "sector_intelligence" ->
                ContradictionFramework("Sector Sentiment Intelligence",
                    Whole(0), Whole(20), Rat(10, 100), NORMAL,
                    "Major sector sentiment reversals requiring rotation")
          [] k = "quantitative_regime" ->
                ContradictionFramework("Quantitative Regime Analysis",
                    Whole(0), Whole(75), Rat(15, 100), NORMAL,
                    "MRN regime approaching transition thresholds")
          [] k = "us_economic_backdrop" ->
                ContradictionFramework("US Economic Backdrop",
                    Whole(0), Whole(30), Rat(10, 100), NORMAL,
                    "US economic indicators showing mixed signals")]

(***************************************************************************)
(* Dictionaries: dict.get(key, default).                                   *)
(***************************************************************************)
Get(entry, default) == IF entry = {} THEN default ELSE CHOOSE v \in entry : TRUE

(***************************************************************************)
(* calculate_master_divergence_index, statement by statement.              *)
(***************************************************************************)

\* a slip: the absolute value is not taken
DivergencePct_Signed(global_sentiment, local_sentiment) ==
    IF local_sentiment # 0
    THEN Rat((global_sentiment - local_sentiment) * 100, local_sentiment)
    ELSE Whole(6000)

\* a slip: the sentinel for a zero local sentiment loses a digit
DivergencePct_LowSentinel(global_sentiment, local_sentiment) ==
    IF local_sentiment # 0
    THEN RAbs(Rat((global_sentiment - local_sentiment) * 100, local_sentiment))
    ELSE Whole(600)

\* a variant that leaves the ratio as a fraction, not a percentage
DivergencePct_Fraction(global_sentiment, local_sentiment) ==
    IF local_sentiment # 0
    THEN Rat(Abs(global_sentiment - local_sentiment), Abs(local_sentiment))
    ELSE Whole(1000)

\* Framework 1: the divergence of global from local sentiment, in percent
DivergencePct(global_sentiment, local_sentiment) ==
    IF local_sentiment # 0
    THEN RAbs(Rat((global_sentiment - local_sentiment) * 100, local_sentiment))
    ELSE Whole(6000)

\* a slip: the comparisons are not strict
GlobalVsLocalStatus_Inclusive(divergence_pct) ==
    IF RGe(divergence_pct, Whole(1000)) THEN CRITICAL
    ELSE IF RGe(divergence_pct, Whole(100)) THEN WARNING
    ELSE NORMAL

GlobalVsLocalStatus(divergence_pct) ==
    IF RGt(divergence_pct, Whole(1000)) THEN CRITICAL
    ELSE IF RGt(divergence_pct, Whole(100)) THEN WARNING
    ELSE NORMAL

\* Framework 6: the share of the MRN regime's maximum duration, in percent
\* (evaluated only when max_duration # 0: the division raises otherwise)
DurationPct(mrn_duration, max_duration) == Rat(mrn_duration * 100, max_duration)

\* a slip: the division is treated as total
DivisionRaises_Never(mrn_duration, max_duration) == FALSE

\* Python's / raises ZeroDivisionError exactly when the divisor is zero
DivisionRaises(mrn_duration, max_duration) == max_duration = 0

\* a slip: the regime warns from half of the maximum duration on
QuantitativeRegimeStatus_WarnsFromHalf(duration_pct) ==
    IF RGt(duration_pct, Whole(50)) THEN WARNING ELSE NORMAL

\* a slip: a duration of exactly 60 percent already warns
QuantitativeRegimeStatus_Inclusive(duration_pct) ==
    IF RGe(duration_pct, Whole(60)) THEN WARNING ELSE NORMAL

QuantitativeRegimeStatus(duration_pct) ==
    IF RGt(duration_pct, Whole(60)) THEN WARNING ELSE NORMAL

\* a slip: the level is stored in the threshold field as well
SetFramework_Threshold(frameworks, key, current_level, status) ==
    [frameworks EXCEPT ![key].current_level = current_level,
                       ![key].threshold = current_level,
                       ![key].status = status]

\* a variant in which the table is never written
SetFramework_ReadOnly(frameworks, key, current_level, status) == frameworks

\* the two assignments framework.current_level = ..., framework.status = ...
SetFramework(frameworks, key, current_level, status) ==
    [frameworks EXCEPT ![key].current_level = current_level,
                       ![key].status = status]

\* a slip: frameworks 2 to 5 get their levels but not their forced status
UpdateBeforeDivision_Unforced(frameworks, divergence_pct) ==
    LET f1 == SetFramework(frameworks, "global_vs_local", divergence_pct,
                           GlobalVsLocalStatus(divergence_pct))
        f2 == SetFramework(f1, "economic_assessment", Whole(75),
                           f1["economic_assessment"].status)
        f3 == SetFramework(f2, "credit_vs_fundamentals", Whole(126),
                           f2["credit_vs_fundamentals"].status)
        f4 == SetFramework(f3, "risk_vs_activity", Whole(100),
                           f3["risk_vs_activity"].status)
    IN  SetFramework(f4, "sector_intelligence", Rat(1143, 10),
                     f4["sector_intelligence"].status)

\* a slip: the sector decline loses its decimal
UpdateBeforeDivision_WholeDecline(frameworks, divergence_pct) ==
    LET f1 == SetFramework(frameworks, "global_vs_local", divergence_pct,
                           GlobalVsLocalStatus(divergence_pct))
        f2 == SetFramework(f1, "economic_assessment", Whole(75), CRITICAL)
        f3 == SetFramework(f2, "credit_vs_fundamentals", Whole(126), CRITICAL)
        f4 == SetFramework(f3, "risk_vs_activity", Whole(100), CRITICAL)
    IN  SetFramework(f4, "sector_intelligence", Whole(114), CRITICAL)

\* Frameworks 1 to 5: the assignments made before the MRN division
UpdateBeforeDivision(frameworks, divergence_pct) ==
    LET f1 == SetFramework(frameworks, "global_vs_local", divergence_pct,
                           GlobalVsLocalStatus(divergence_pct))
        f2 == SetFramework(f1, "economic_assessment", Whole(75), CRITICAL)
        f3 == SetFramework(f2, "credit_vs_fundamentals", Whole(126), CRITICAL)
        f4 == SetFramework(f3, "risk_vs_activity", Whole(100), CRITICAL)
        max_decline == Rat(1143, 10)
    IN  SetFramework(f4, "sector_intelligence", max_decline, CRITICAL)

\* a slip: quantitative_regime keeps the highest level it has ever had
UpdateAfterDivision_HighWater(frameworks, duration_pct) ==
    LET former == frameworks["quantitative_regime"].current_level
        level  == IF RGt(former, duration_pct) THEN former ELSE duration_pct
        f6     == SetFramework(frameworks, "quantitative_regime", level,
                               QuantitativeRegimeStatus(level))
    IN  SetFramework(f6, "us_economic_backdrop", Whole(50), WARNING)

\* a slip: the status of quantitative_regime is taken from the level the
\* table held before the assignment
UpdateAfterDivision_StaleStatus(frameworks, duration_pct) ==
    LET f6 == SetFramework(frameworks, "quantitative_regime", duration_pct,
                  QuantitativeRegimeStatus(
                      frameworks["quantitative_regime"].current_level))
    IN  SetFramework(f6, "us_economic_backdrop", Whole(50), WARNING)

\* Frameworks 6 and 7: the assignments made after the MRN division
UpdateAfterDivision(frameworks, duration_pct) ==
    LET f6 == SetFramework(frameworks, "quantitative_regime", duration_pct,
                           QuantitativeRegimeStatus(duration_pct))
    IN  SetFramework(f6, "us_economic_backdrop", Whole(50), WARNING)

\* a slip: the contribution is capped at 100, the cap of a percentage
FrameworkScore_PercentCap(framework) ==
    IF RGt(framework.current_level, framework.threshold)
    THEN RMul(RMin(RMul(framework.current_level, Rat(1, 100)), Whole(100)),
              framework.weight)
    ELSE Whole(0)

\* a slip: a framework exactly at its threshold contributes
FrameworkScore_Inclusive(framework) ==
    IF RGe(framework.current_level, framework.threshold)
    THEN RMul(RMin(RMul(framework.current_level, Rat(1, 100)), Whole(10)),
              framework.weight)
    ELSE Whole(0)

\* a slip: the contribution is not capped at 10
FrameworkScore_Uncapped(framework) ==
    IF RGt(framework.current_level, framework.threshold)
    THEN RMul(RMul(framework.current_level, Rat(1, 100)), framework.weight)
    ELSE Whole(0)

\* the contribution of one framework to total_score
FrameworkScore(framework) ==
    IF RGt(framework.current_level, framework.threshold)
    THEN RMul(RMin(RMul(framework.current_level, Rat(1, 100)), Whole(10)),
              framework.weight)
    ELSE Whole(0)

\* the loop over self.contradiction_frameworks.values(): total_score after
\* the first i frameworks
RECURSIVE TotalScoreUpTo(_, _)
TotalScoreUpTo(frameworks, i) ==
    IF i = 0 THEN Whole(0)
    ELSE RAdd(TotalScoreUpTo(frameworks, i - 1),
              FrameworkScore(frameworks[FrameworkKeys[i]]))

TotalScore(frameworks) == TotalScoreUpTo(frameworks, Len(FrameworkKeys))

\* a slip: every flagged framework is counted, not only the critical ones
CriticalCount_Flagged(frameworks) ==
    Cardinality({k \in DOMAIN frameworks : frameworks[k].status # NORMAL})

\* the same loop: critical_count
CriticalCount(frameworks) ==
    Cardinality({k \in DOMAIN frameworks : frameworks[k].status = CRITICAL})

\* a slip: the Global-Local trigger is not strict
Opportunities_Inclusive(divergence_pct, critical_count, total_score) ==
    (IF RGe(divergence_pct, Whole(1000))
     THEN << [type |-> "Global-Local Arbitrage",
              strategy |-> "Long international, short local",
              magnitude |-> divergence_pct,
              timeline |-> "2-8 weeks",
              confidence |-> "Very High"] >>
     ELSE << >>)
    \o
    (IF critical_count >= 2
     THEN << [type |-> "Multi-Framework Arbitrage",
              strategy |-> "Position across contradictions",
              magnitude |-> RMul(total_score, Whole(100)),
              timeline |-> "1-4 weeks",
              confidence |-> "High"] >>
     ELSE << >>)

\* a slip: the two appends are made in the other order
Opportunities_Swapped(divergence_pct, critical_count, total_score) ==
    (IF critical_count >= 2
     THEN << [type |-> "Multi-Framework Arbitrage",
              strategy |-> "Position across contradictions",
              magnitude |-> RMul(total_score, Whole(100)),
              timeline |-> "1-4 weeks",
              confidence |-> "High"] >>
     ELSE << >>)
    \o
    (IF RGt(divergence_pct, Whole(1000))
     THEN << [type |-> "Global-Local Arbitrage",
              strategy |-> "Long international, short local",
              magnitude |-> divergence_pct,
              timeline |-> "2-8 weeks",
              confidence |-> "Very High"] >>
     ELSE << >>)

\* the opportunities list, in the order of its appends
Opportunities(divergence_pct, critical_count, total_score) ==
    (IF RGt(divergence_pct, Whole(1000))
     THEN << [type |-> "Global-Local Arbitrage",
              strategy |-> "Long international, short local",
              magnitude |-> divergence_pct,
              timeline |-> "2-8 weeks",
              confidence |-> "Very High"] >>
     ELSE << >>)
    \o
    (IF critical_count >= 2
     THEN << [type |-> "Multi-Framework Arbitrage",
              strategy |-> "Position across contradictions",
              magnitude |-> RMul(total_score, Whole(100)),
              timeline |-> "1-4 weeks",
              confidence |-> "High"] >>
     ELSE << >>)

\* a slip: the system is CRITICAL only from five critical frameworks on
SystemStatus_FiveNeeded(critical_count) ==
    IF critical_count >= 5 THEN CRITICAL
    ELSE IF critical_count >= 1 THEN WARNING
    ELSE NORMAL

SystemStatus(critical_count) ==
    IF critical_count >= 3 THEN CRITICAL
    ELSE IF critical_count >= 1 THEN WARNING
    ELSE NORMAL

ActiveContradictions(frameworks) ==
    Cardinality({k \in DOMAIN frameworks :
                    RGt(frameworks[k].current_level, frameworks[k].threshold)})

\* the dictionary the pass returns
AnalysisResult(frameworks, timestamp, global_sentiment, local_sentiment, divergence_pct) ==
    LET total_score    == TotalScore(frameworks)
        critical_count == CriticalCount(frameworks)
    IN  [timestamp |-> timestamp,
         frameworks |->
            [name \in DOMAIN frameworks |->
                [level       |-> frameworks[name].current_level,
                 threshold   |-> frameworks[name].threshold,
                 status      |-> frameworks[name].status,
                 implication |-> frameworks[name].implication]],
         master_divergence_index |-> total_score,
         critical_frameworks |-> critical_count,
         system_status |-> SystemStatus(critical_count),
         opportunities |-> Opportunities(divergence_pct, critical_count, total_score),
         summary |->
            [total_contradictions  |-> Cardinality(DOMAIN frameworks),
             active_contradictions |-> ActiveContradictions(frameworks),
             global_sentiment      |-> global_sentiment,
             local_sentiment       |-> local_sentiment,
             divergence_percentage |-> divergence_pct]]

\* the four values the pass reads from its argument, with the defaults of
\* the code for absent keys (sentiments in hundredths)
GlobalSentiment(rd) == Get(rd.global_sentiment.sentiment_score, 600)
LocalSentiment(rd)  == Get(rd.market_trend.sentiment_score, 9)
MrnDuration(rd)     == Get(rd.nifty_mrn.mi_duration, 14)
MaxDuration(rd)     == Get(rd.nifty_mrn.max_duration, 21)

\* a variant in which a pass that raises leaves the table as it found it
TableAfterPass_AllOrNothing(frameworks, rd) ==
    IF DivisionRaises(MrnDuration(rd), MaxDuration(rd))
    THEN frameworks
    ELSE UpdateAfterDivision(
             UpdateBeforeDivision(frameworks,
                 DivergencePct(GlobalSentiment(rd), LocalSentiment(rd))),
             DurationPct(MrnDuration(rd), MaxDuration(rd)))

\* the framework table a pass leaves behind: all seven frameworks assigned
\* when the division succeeds, the first five when it raises
TableAfterPass(frameworks, rd) ==
    LET before == UpdateBeforeDivision(frameworks,
                      DivergencePct(GlobalSentiment(rd), LocalSentiment(rd)))
    IN  IF DivisionRaises(MrnDuration(rd), MaxDuration(rd))
        THEN before
        ELSE UpdateAfterDivision(before,
                 DurationPct(MrnDuration(rd), MaxDuration(rd)))

\* the dictionary a pass returns, from the table it has assigned and the
\* clock reading t
ResultOfPass(table, rd, t) ==
    AnalysisResult(table, t, GlobalSentiment(rd), LocalSentiment(rd),
                   DivergencePct(GlobalSentiment(rd), LocalSentiment(rd)))

(***************************************************************************)
(* How a call ends.                                                        *)
(***************************************************************************)
NotCalled      == [kind |-> "none"]
Returned(v)    == [kind |-> "return", value |-> v]
Raised(e)      == [kind |-> "raise", error |-> e]

(***************************************************************************)
(* Publish.py: MarketIntelligenceGenerator.analyze_frameworks, which       *)
(* analyses five frameworks into a new dictionary and holds no table.      *)
(***************************************************************************)
EXTREME == "EXTREME"
HIGH    == "HIGH"

\* a variant with the rule of publish.py: CRITICAL from three on
AnalysisSystemStatus_ThreeNeeded(critical_count) ==
    IF critical_count >= 3 THEN CRITICAL
    ELSE IF critical_count >= 1 THEN WARNING
    ELSE NORMAL

\* summary["system_status"] of Publish.py
AnalysisSystemStatus(critical_count) ==
    IF critical_count >= 2 THEN CRITICAL
    ELSE IF critical_count >= 1 THEN WARNING
    ELSE NORMAL

\* analysis["contradictions"], by the sentiments and the MRN duration read
\* from raw_data; the duration is divided by the literal 21
AnalysisContradictions(global_sentiment, local_sentiment, mrn_duration) ==
    LET divergence_pct ==
            IF local_sentiment # 0
            THEN RAbs(Rat((global_sentiment - local_sentiment) * 100, local_sentiment))
            ELSE Whole(6000)
        duration_pct == Rat(mrn_duration * 100, 21)
    IN  [global_vs_local |->
            [level  |-> divergence_pct,
             status |-> IF RGt(divergence_pct, Whole(1000)) THEN EXTREME ELSE HIGH],
         economic_assessment    |-> [level |-> Whole(75),     status |-> HIGH],
         credit_vs_fundamentals |-> [level |-> Whole(126),    status |-> CRITICAL],
         sector_intelligence    |-> [level |-> Rat(1143, 10), status |-> CRITICAL],
         quantitative_regime |->
            [level  |-> duration_pct,
             status |-> IF RGt(duration_pct, Whole(60)) THEN WARNING ELSE NORMAL]]

\* analyze_frameworks(raw_data) at the clock reading t
AnalyzeFrameworks(rd, t) ==
    LET contradictions ==
            AnalysisContradictions(Get(rd.global_sentiment.sentiment_score, 600),
                                   Get(rd.market_trend.sentiment_score, 9),
                                   Get(rd.nifty_mrn.mi_duration, 14))
        divergence_pct == contradictions["global_vs_local"].level
        critical_count ==
            Cardinality({name \in DOMAIN contradictions :
                            contradictions[name].status = CRITICAL})
    IN  [timestamp |-> t,
         contradictions |-> contradictions,
         opportunities |->
            IF RGt(divergence_pct, Whole(1000))
            THEN << [type       |-> "Global-Local Arbitrage",
                     strategy   |-> "Long international, short local",
                     magnitude  |-> divergence_pct,
                     timeline   |-> "2-8 weeks",
                     confidence |-> "Very High"] >>
            ELSE << >>,
         summary |->
            [total_contradictions    |-> Cardinality(DOMAIN contradictions),
             critical_frameworks     |-> critical_count,
             system_status           |-> AnalysisSystemStatus(critical_count),
             master_divergence_index |-> RMul(divergence_pct, Rat(1, 1000))]]

(***************************************************************************)
(* The snapshots handed to the scorer.  Sentiments are in hundredths: the  *)
(* global scores 0.0, 1.0, 9.0, 10.0 and the local scores -1.0, 0.0, 1.0;  *)
(* an absent key makes the code use 6.0 and 0.09.  The nifty_mrn entries   *)
(* are the defaults (14 of 21), 16 of 21, durations against small maxima   *)
(* that put the level on 60, on 75, on 1000 and beyond, and one entry      *)
(* whose max_duration is 0.                                                *)
(***************************************************************************)
GlobalSentiments == {0, 100, 900, 1000}
LocalSentiments  == {-100, 0, 100}

Optional(S) == {{}} \cup {{v} : v \in S}

MrnEntry(m, x) == [mi_duration |-> m, max_duration |-> x]

NiftyMrns ==
    { MrnEntry({}, {}), MrnEntry({16}, {21}), MrnEntry({3}, {5}),
      MrnEntry({3}, {4}), MrnEntry({10}, {1}), MrnEntry({16}, {1}),
      MrnEntry({3}, {0}) }

RawData(g, l, mrn) ==
    [global_sentiment |-> [sentiment_score |-> g],
     market_trend     |-> [sentiment_score |-> l],
     nifty_mrn        |-> mrn]

NoRawData == RawData({}, {}, MrnEntry({}, {}))

(***************************************************************************)
(* Dates.  A date string is a sequence of eight characters: the digits 0   *)
(* to 9, and 10 for a character that is no digit.                          *)
(***************************************************************************)
IsLeap(year) == year % 4 = 0 /\ (year % 100 # 0 \/ year % 400 = 0)

DaysInMonth(year, month) ==
    IF month = 2 THEN (IF IsLeap(year) THEN 29 ELSE 28)
    ELSE IF month \in {4, 6, 9, 11} THEN 30 ELSE 31

\* datetime.strptime(date_str, "%Y%m%d") on a string of eight characters:
\* the date it returns, or {} when it raises ValueError
Strptime(date_str) ==
    LET year  == date_str[1] * 1000 + date_str[2] * 100 + date_str[3] * 10 + date_str[4]
        month == date_str[5] * 10 + date_str[6]
        day   == date_str[7] * 10 + date_str[8]
    IN  IF /\ \A i \in 1..8 : date_str[i] \in 0..9
           /\ year >= 1
           /\ month \in 1..12
           /\ day >= 1 /\ day <= DaysInMonth(year, month)
        THEN {[year |-> year, month |-> month, day |-> day]}
        ELSE {}

\* the number of days from 1970-01-01 to the date (proleptic Gregorian)
DaysFromEpoch(date) ==
    LET y   == IF date.month <= 2 THEN date.year - 1 ELSE date.year
        era == y \div 400
        yoe == y - era * 400
        mp  == IF date.month > 2 THEN date.month - 3 ELSE date.month + 9
        doy == (153 * mp + 2) \div 5 + date.day - 1
        doe == yoe * 365 + yoe \div 4 - yoe \div 100 + doy
    IN  era * 146097 + doe - 719468

\* date.weekday(): Monday is 0; 1970-01-01 was a Thursday
Weekday(date) == (DaysFromEpoch(date) + 3) % 7

\* MarketIntelligencePublisher.is_friday
IsFriday(date_str) ==
    LET date_obj == Strptime(date_str)
    IN  IF date_obj = {} THEN FALSE
        ELSE \A d \in date_obj : Weekday(d) = 4

(***************************************************************************)
(* ingest_all_data.  The input files are the environment: for each source  *)
(* a record [condition, number], where condition is "missing" (no file, or *)
(* an empty or unreadable one: parse_html_file returns None), "parsed"     *)
(* (parse_html_file returns a soup) or "raises" (an exception escapes      *)
(* while the source is processed), and number is the number the extraction *)
(* finds in the text, {} when it finds none.                               *)
(***************************************************************************)
DataSources ==
    << "market_trend", "market_dashboard", "news_dashboard",
       "sector_sentiment", "global_sentiment", "global_economic",
       "economic_indicators", "hyg_credit", "nifty_mrn" >>

SourceIds == {DataSources[i] : i \in 1..Len(DataSources)}

SourceFile(condition, number) == [condition |-> condition, number |-> number]

\* the value an extraction keeps: the number found when there is a soup and
\* the number lies in the accepted range, the preset value otherwise
Extracted(file, low, high, preset) ==
    IF file.condition = "parsed" /\ file.number # {}
    THEN LET found == CHOOSE v \in file.number : TRUE
         IN  IF low <= found /\ found <= high THEN found ELSE preset
    ELSE preset

\* a slip: the fallback record of nifty_mrn carries no maximum
Extract_NoFallbackMax(source_id, file) ==
    CASE source_id = "market_trend" ->
            [sentiment_score |-> Extracted(file, -1000, 1000, 9)]
      [] source_id = "global_sentiment" ->
            [sentiment_score |-> Extracted(file, -2000, 2000, 600)]
      [] source_id = "nifty_mrn" ->
            [mi_duration |-> Extracted(file, 1, 30, 14),
             max_duration |-> IF file.condition = "parsed" THEN 21 ELSE 0]
      [] source_id \in {"market_dashboard", "sector_sentiment"} ->
            [status |-> IF file.condition = "parsed" THEN "extracted" ELSE "fallback"]
      [] OTHER ->
            [status |-> "parsed", source |-> source_id]

\* extraction_methods[source_id](soup), and the generic entry
Extract(source_id, file) ==
    CASE source_id = "market_trend" ->
            [sentiment_score |-> Extracted(file, -1000, 1000, 9)]
      [] source_id = "global_sentiment" ->
            [sentiment_score |-> Extracted(file, -2000, 2000, 600)]
      [] source_id = "nifty_mrn" ->
            [mi_duration |-> Extracted(file, 1, 30, 14), max_duration |-> 21]
      [] source_id \in {"market_dashboard", "sector_sentiment"} ->
            [status |-> IF file.condition = "parsed" THEN "extracted" ELSE "fallback"]
      [] OTHER ->
            [status |-> "parsed", source |-> source_id]

NoEntries == [source_id \in {} |-> {}]

\* a slip: a file that is missing, empty or unparseable is an issue
RECURSIVE IngestUpTo_MissingFails(_, _)
IngestUpTo_MissingFails(files, i) ==
    IF i = 0
    THEN [raw_data |-> NoEntries,
          validation_report |->
              [issues |-> << >>, warnings |-> << >>, success_count |-> 0]]
    ELSE IF files[DataSources[i]].condition # "parsed"
    THEN [IngestUpTo_MissingFails(files, i - 1) EXCEPT
              !.validation_report.issues = Append(@, DataSources[i])]
    ELSE [IngestUpTo_MissingFails(files, i - 1) EXCEPT
              !.raw_data = @ @@ (DataSources[i] :> Extract(DataSources[i], files[DataSources[i]])),
              !.validation_report.success_count = @ + 1]

\* the loop over self.data_sources: raw_data and validation_report after
\* the first i sources
RECURSIVE IngestUpTo(_, _)
IngestUpTo(files, i) ==
    IF i = 0
    THEN [raw_data |-> NoEntries,
          validation_report |->
              [issues |-> << >>, warnings |-> << >>, success_count |-> 0]]
    ELSE IF files[DataSources[i]].condition = "raises"
    THEN [IngestUpTo(files, i - 1) EXCEPT
              !.validation_report.issues = Append(@, DataSources[i])]
    ELSE [IngestUpTo(files, i - 1) EXCEPT
              !.raw_data = @ @@ (DataSources[i] :> Extract(DataSources[i], files[DataSources[i]])),
              !.validation_report.success_count = @ + 1]

IngestAllData(files) == IngestUpTo(files, Len(DataSources))

\* raw_data as the scorer reads it: raw_data.get(source, {}).get(key)
Entry(ingested, source_id, key) ==
    IF source_id \in DOMAIN ingested THEN {ingested[source_id][key]} ELSE {}

Snapshot(ingested) ==
    RawData(Entry(ingested, "global_sentiment", "sentiment_score"),
            Entry(ingested, "market_trend", "sentiment_score"),
            MrnEntry(Entry(ingested, "nifty_mrn", "mi_duration"),
                     Entry(ingested, "nifty_mrn", "max_duration")))

(***************************************************************************)
(* PublicationGenerator.  The HTML is modelled by the values it shows; a   *)
(* generator returns the HTML and leaves its argument analysis_data as the *)
(* record pairs them: [html_content, analysis_data].                       *)
(***************************************************************************)

\* the framework cards both generators add, one for each entry of
\* analysis_data["frameworks"]
FrameworkCards(analysis_data) ==
    [name \in DOMAIN analysis_data.frameworks |->
        [status      |-> analysis_data.frameworks[name].status,
         level       |-> analysis_data.frameworks[name].level,
         threshold   |-> analysis_data.frameworks[name].threshold,
         implication |-> analysis_data.frameworks[name].implication]]

GenerateDailyPublication(analysis_data, ingested, date_str) ==
    [html_content |->
        [publication    |-> "daily",
         date           |-> date_str,
         system_status  |-> analysis_data.system_status,
         critical_count |-> analysis_data.critical_frameworks,
         divergence_pct |-> analysis_data.summary.divergence_percentage,
         mi_duration    |-> Get(Entry(ingested, "nifty_mrn", "mi_duration"), 14),
         cards          |-> FrameworkCards(analysis_data)],
     analysis_data |-> analysis_data]

GenerateWeeklyPublication(analysis_data, ingested, week_ending) ==
    [html_content |->
        [publication    |-> "weekly",
         date           |-> week_ending,
         divergence_pct |-> analysis_data.summary.divergence_percentage,
         critical_count |-> analysis_data.critical_frameworks,
         cards          |-> FrameworkCards(analysis_data),
         opportunities  |-> analysis_data.opportunities],
     analysis_data |-> analysis_data]

\* a variant in which the result holds the table's own entries, so that
\* its holder reads whatever the table has become
ResultSeenAfter_SharedEntries(result, table) ==
    [result EXCEPT !.frameworks =
        [name \in DOMAIN table |->
            [level       |-> table[name].current_level,
             threshold   |-> table[name].threshold,
             status      |-> table[name].status,
             implication |-> table[name].implication]]]

\* what the holder of a returned result reads once the engine's table has
\* become `table`: the result holds new dictionaries of numbers and strings,
\* none of the table's objects, so it reads what was returned
ResultSeenAfter(result, table) == result

(***************************************************************************)
(* MarketIntelligencePublisher.  An engine is the record of the four       *)
(* variables a scoring pass writes; the output directory is the            *)
(* environment: `unwritable` holds the output files whose open(..., 'w')   *)
(* raises.                                                                 *)
(***************************************************************************)
Engine(table, rd, result, before) ==
    [contradiction_frameworks |-> table, raw_data |-> rd,
     outcome |-> result, earlier |-> before]

\* MarketIntelligenceEngine(): the engine a new publisher builds
NewEngine == Engine(InitialFrameworks, NoRawData, NotCalled, NotCalled)

\* Body(v), with the value v computed once
With(v, Body(_)) == CHOOSE result \in {Body(x) : x \in {v}} : TRUE

\* engine.calculate_master_divergence_index(rd) at the clock reading t
PassOn(engine, rd, t) ==
    With(TableAfterPass(engine.contradiction_frameworks, rd),
         LAMBDA table :
            Engine(table, rd,
                   IF DivisionRaises(MrnDuration(rd), MaxDuration(rd))
                   THEN Raised("ZeroDivisionError")
                   ELSE Returned(ResultOfPass(table, rd, t)),
                   IF rd = engine.raw_data THEN engine.outcome ELSE NotCalled))

OutputFile(publication, file) == [publication |-> publication, file |-> file]

Step(publication, step) == [publication |-> publication, step |-> step]

\* generator.generate_daily_publication or generate_weekly_publication
Generate(publication, analysis_data, ingested, date_str) ==
    IF publication = "daily"
    THEN GenerateDailyPublication(analysis_data, ingested, date_str)
    ELSE GenerateWeeklyPublication(analysis_data, ingested, date_str)

\* what publish_daily or publish_weekly hands back: what the method returns
\* (ok), the engine it leaves, the steps it took, the files it wrote in
\* order, and the validation report of its ingestion
Attempt(ok, engine, steps, written, validation_report) ==
    [ok |-> ok, engine |-> engine, steps |-> steps, written |-> written,
     validation_report |-> validation_report]

\* a slip: the analysis data are saved first, the HTML after them
Save_JsonFirst(publication, date_str, unwritable, t, ingest, scored, generated) ==
    LET html == [path |-> OutputFile(publication, "html"),
                 date |-> date_str,
                 content |-> generated.html_content]
        json == [path |-> OutputFile(publication, "json"),
                 date |-> date_str,
                 content |->
                     [analysis |-> generated.analysis_data,
                      raw_data |-> ingest.raw_data,
                      validation_report |-> ingest.validation_report,
                      timestamp |-> t]]
        begun == << Step(publication, "ingest"), Step(publication, "score"),
                    Step(publication, "render"), Step(publication, "write_json") >>
    IN  IF OutputFile(publication, "json") \in unwritable
        THEN Attempt(FALSE, scored, begun, << >>, ingest.validation_report)
        ELSE IF OutputFile(publication, "html") \in unwritable
        THEN Attempt(FALSE, scored,
                     begun \o << Step(publication, "write_html") >>,
                     << json >>, ingest.validation_report)
        ELSE Attempt(TRUE, scored,
                     begun \o << Step(publication, "write_html") >>,
                     << json, html >>, ingest.validation_report)

\* a slip: the method reports success once the HTML file is written,
\* whatever becomes of the JSON file
Save_IgnoresJsonFailure(publication, date_str, unwritable, t, ingest, scored, generated) ==
    LET html == [path |-> OutputFile(publication, "html"),
                 date |-> date_str,
                 content |-> generated.html_content]
        begun == << Step(publication, "ingest"), Step(publication, "score"),
                    Step(publication, "render"), Step(publication, "write_html") >>
    IN  IF OutputFile(publication, "html") \in unwritable
        THEN Attempt(FALSE, scored, begun, << >>, ingest.validation_report)
        ELSE Attempt(TRUE, scored,
                     begun \o << Step(publication, "write_json") >>,
                     << html >>, ingest.validation_report)

\* the two with open(..., 'w') blocks, after the HTML has been generated
Save(publication, date_str, unwritable, t, ingest, scored, generated) ==
    LET html == [path |-> OutputFile(publication, "html"),
                 date |-> date_str,
                 content |-> generated.html_content]
        json == [path |-> OutputFile(publication, "json"),
                 date |-> date_str,
                 content |->
                     [analysis |-> generated.analysis_data,
                      raw_data |-> ingest.raw_data,
                      validation_report |-> ingest.validation_report,
                      timestamp |-> t]]
        begun == << Step(publication, "ingest"), Step(publication, "score"),
                    Step(publication, "render"), Step(publication, "write_html") >>
    IN  IF OutputFile(publication, "html") \in unwritable
        THEN Attempt(FALSE, scored, begun, << >>, ingest.validation_report)
        ELSE IF OutputFile(publication, "json") \in unwritable
        THEN Attempt(FALSE, scored,
                     begun \o << Step(publication, "write_json") >>,
                     << html >>, ingest.validation_report)
        ELSE Attempt(TRUE, scored,
                     begun \o << Step(publication, "write_json") >>,
                     << html, json >>, ingest.validation_report)

\* the scoring pass and what follows it, after an ingestion that had a
\* success
ScoreAndSave(publication, date_str, unwritable, t, ingest, scored) ==
    IF scored.outcome.kind = "raise"
    THEN Attempt(FALSE, scored,
                 << Step(publication, "ingest"), Step(publication, "score") >>,
                 << >>, ingest.validation_report)
    ELSE IF Strptime(date_str) = {}
    THEN \* the generator begins with datetime.strptime(date_str, "%Y%m%d"),
         \* which raises ValueError
         Attempt(FALSE, scored,
                 << Step(publication, "ingest"), Step(publication, "score"),
                    Step(publication, "render") >>,
                 << >>, ingest.validation_report)
    ELSE With(Generate(publication, scored.outcome.value, ingest.raw_data, date_str),
              LAMBDA generated :
                 Save(publication, date_str, unwritable, t, ingest, scored, generated))

\* the body shared by publish_daily and publish_weekly
Ingested(publication, engine, date_str, unwritable, t, ingest) ==
    IF ingest.validation_report.success_count = 0
    THEN Attempt(FALSE, engine, << Step(publication, "ingest") >>, << >>,
                 ingest.validation_report)
    ELSE With(PassOn(engine, Snapshot(ingest.raw_data), t),
              LAMBDA scored :
                 ScoreAndSave(publication, date_str, unwritable, t, ingest, scored))

GenerateAndSave(publication, engine, date_str, files, unwritable, t) ==
    With(IngestAllData(files),
         LAMBDA ingest :
            Ingested(publication, engine, date_str, unwritable, t, ingest))

PublishDaily(engine, date_str, files, unwritable, t) ==
    GenerateAndSave("daily", engine, date_str, files, unwritable, t)

PublishWeekly(engine, date_str, files, unwritable, t) ==
    GenerateAndSave("weekly", engine, date_str, files, unwritable, t)

\* what publish hands back: the results dictionary, with the engine left,
\* the steps taken, the files written and the validation reports
Published(daily_ok, weekly_ok, engine, steps, written, reports) ==
    [results |-> [daily |-> daily_ok, weekly |-> weekly_ok], engine |-> engine,
     steps |-> steps, written |-> written, reports |-> reports]

\* a slip: the weekly publication is skipped when the daily one failed
AfterDaily_OnlyAfterSuccess(daily, date_str, files, unwritable, t) ==
    IF IsFriday(date_str) /\ daily.ok
    THEN With(PublishWeekly(daily.engine, date_str, files, unwritable, t),
              LAMBDA weekly :
                 Published(daily.ok, weekly.ok, weekly.engine,
                           daily.steps \o weekly.steps,
                           daily.written \o weekly.written,
                           << daily.validation_report, weekly.validation_report >>))
    ELSE Published(daily.ok, FALSE, daily.engine, daily.steps, daily.written,
                   << daily.validation_report >>)

\* publish after its daily attempt
AfterDaily(daily, date_str, files, unwritable, t) ==
    IF IsFriday(date_str)
    THEN With(PublishWeekly(daily.engine, date_str, files, unwritable, t),
              LAMBDA weekly :
                 Published(daily.ok, weekly.ok, weekly.engine,
                           daily.steps \o weekly.steps,
                           daily.written \o weekly.written,
                           << daily.validation_report, weekly.validation_report >>))
    ELSE Published(daily.ok, FALSE, daily.engine, daily.steps, daily.written,
                   << daily.validation_report >>)

\* MarketIntelligencePublisher.publish
PublishOn(engine, date_str, files, unwritable, t) ==
    IF Strptime(date_str) = {}
    THEN Published(FALSE, FALSE, engine, << >>, << >>, << >>)
    ELSE With(PublishDaily(engine, date_str, files, unwritable, t),
              LAMBDA daily : AfterDaily(daily, date_str, files, unwritable, t))

(***************************************************************************)
(* The inputs of the publisher.  Dates: Thursday 2025-06-05, Friday        *)
(* 2025-06-06, the impossible 2025-02-30 and a string with a letter in it. *)
(* Input files: none present; all present with numbers in range; all       *)
(* present with numbers out of range, one source raising; every source     *)
(* raising; every source but one raising.  Output files: all writable, or  *)
(* one of them not.                                                        *)
(***************************************************************************)
DateStrs ==
    { <<2, 0, 2, 5, 0, 6, 0, 5>>, <<2, 0, 2, 5, 0, 6, 0, 6>>,
      <<2, 0, 2, 5, 0, 2, 3, 0>>, <<2, 0, 2, 5, 10, 6, 0, 6>> }

\* the strings publish_daily and publish_weekly are called with by
\* themselves: the Thursday and the impossible date
DirectDateStrs == { <<2, 0, 2, 5, 0, 6, 0, 5>>, <<2, 0, 2, 5, 0, 2, 3, 0>> }

\* sys.argv[1:]
Arguments ==
    {<< >>, << <<2, 0, 2, 5, 0, 6, 0, 6>>, <<2, 0, 2, 5, 0, 6, 0, 6>> >>}
        \cup {<<d>> : d \in DateStrs}

AllFiles(file) == [source_id \in SourceIds |-> file]

InputFiles ==
    { AllFiles(SourceFile("missing", {})),
      [AllFiles(SourceFile("parsed", {})) EXCEPT
          !["market_trend"].number = {100},
          !["global_sentiment"].number = {1000},
          !["nifty_mrn"].number = {16}],
      [AllFiles(SourceFile("parsed", {})) EXCEPT
          !["market_trend"].number = {0},
          !["global_sentiment"].number = {2500},
          !["nifty_mrn"].number = {45},
          !["hyg_credit"].condition = "raises"],
      AllFiles(SourceFile("raises", {})),
      [AllFiles(SourceFile("raises", {})) EXCEPT
          !["news_dashboard"] = SourceFile("missing", {})] }

Unwritables ==
    { {}, {OutputFile("daily", "html")}, {OutputFile("daily", "json")},
      {OutputFile("weekly", "html")} }

\* the snapshots of a caller that keeps results
CallerSnapshots ==
    {RawData(g, l, mrn) :
        g \in {{}, {1000}}, l \in {{}, {100}},
        mrn \in {MrnEntry({}, {}), MrnEntry({16}, {21}), MrnEntry({3}, {0})}}

NoRun == [op |-> "none"]

NothingKept == [kind |-> "none"]

(***************************************************************************)
(* The state machine.                                                      *)
(***************************************************************************)
Init ==
    /\ contradiction_frameworks = InitialFrameworks
    /\ raw_data = NoRawData
    /\ outcome = NotCalled
    /\ earlier = NotCalled
    /\ now = 0
    /\ run = NoRun
    /\ kept = NothingKept
    /\ analysis = NotCalled

\* one call of engine.calculate_master_divergence_index(rd)
CalculateMasterDivergenceIndex(rd) ==
    /\ raw_data' = rd
    /\ earlier' = IF rd = raw_data THEN outcome ELSE NotCalled
    /\ contradiction_frameworks' = TableAfterPass(contradiction_frameworks, rd)
    /\ IF DivisionRaises(MrnDuration(rd), MaxDuration(rd))
       THEN \* mrn_duration / max_duration raises; nothing catches it here
            /\ outcome' = Raised("ZeroDivisionError")
            /\ now' = now
       ELSE \* the loop and the returned dictionary read the table as the
            \* assignments left it; the timestamp is datetime.now(), the
            \* one field of the dictionary that depends on the clock
            \E result \in {ResultOfPass(contradiction_frameworks', rd, now)} :
                \E t \in now..MaxClock :
                    /\ outcome' = Returned([result EXCEPT !.timestamp = t])
                    /\ now' = t
    /\ kept' = IF kept.kind = "kept"
               THEN [kept EXCEPT !.analysis_data =
                        ResultSeenAfter(@, contradiction_frameworks')]
               ELSE kept
    /\ run' = run
    \* analyze_frameworks has not been given the new argument yet
    /\ analysis' = NotCalled

\* the wall clock moves on between two runs
Tick ==
    /\ now < MaxClock
    /\ now' = now + 1
    /\ UNCHANGED <<contradiction_frameworks, raw_data, outcome, earlier, run, kept, analysis>>

\* the record of a call of publish or a run of main
Run(op, args, published, exit_code) ==
    [op |-> op, args |-> args, steps |-> published.steps,
     written |-> published.written, results |-> published.results,
     reports |-> published.reports, exit_code |-> exit_code]

\* the engine of the publisher after the call
EngineBecomes(engine) ==
    /\ contradiction_frameworks' = engine.contradiction_frameworks
    /\ raw_data' = engine.raw_data
    /\ outcome' = engine.outcome
    /\ earlier' = engine.earlier

\* one call of publisher.publish(date_str) on the publisher whose engine
\* the variables hold
Publish(date_str, files, unwritable) ==
    \E published \in {PublishOn(Engine(contradiction_frameworks, raw_data,
                                       outcome, earlier),
                                date_str, files, unwritable, now)} :
        /\ run' = Run("publish", <<date_str>>, published, {})
        /\ EngineBecomes(published.engine)
        /\ UNCHANGED <<now, kept, analysis>>

\* one call of publisher.publish_daily(date_str) or
\* publisher.publish_weekly(date_str) by itself, with any string
PublishOne(publication, date_str, files, unwritable) ==
    \E attempt \in {GenerateAndSave(publication,
                                     Engine(contradiction_frameworks, raw_data,
                                            outcome, earlier),
                                     date_str, files, unwritable, now)} :
        /\ run' = [op |-> publication, args |-> <<date_str>>,
                   steps |-> attempt.steps, written |-> attempt.written,
                   results |-> attempt.ok,
                   reports |-> << attempt.validation_report >>,
                   exit_code |-> {}]
        /\ EngineBecomes(attempt.engine)
        /\ UNCHANGED <<now, kept, analysis>>

\* nothing was published
NotPublished ==
    [steps |-> << >>, written |-> << >>, results |-> {}, reports |-> << >>]

\* one run of the program with the arguments args: main builds a new
\* publisher, leaves with sys.exit(1) on a wrong argument count or a date
\* that strptime rejects, and otherwise publishes, reports and returns
Main(args, files, unwritable) ==
    /\ UNCHANGED <<now, kept, analysis>>
    /\ IF Len(args) # 1
       THEN /\ run' = Run("main", args, NotPublished, {1})
            /\ EngineBecomes(NewEngine)
       ELSE IF Strptime(args[1]) = {}
       THEN /\ run' = Run("main", args, NotPublished, {1})
            /\ EngineBecomes(NewEngine)
       ELSE \E published \in {PublishOn(NewEngine, args[1], files, unwritable, now)} :
                /\ run' = Run("main", args,
                              [published EXCEPT !.results = {@}], {0})
                /\ EngineBecomes(published.engine)

\* a caller keeps the result the last pass returned
CallerKeeps ==
    /\ outcome.kind = "return"
    /\ kept' = [kind |-> "kept", analysis_data |-> outcome.value,
                as_returned |-> outcome.value, generated |-> {}]
    /\ UNCHANGED <<contradiction_frameworks, raw_data, outcome, earlier, now, run, analysis>>

\* the caller hands the result it keeps to generate_daily_publication
CallerGeneratesDaily(date_str, files) ==
    /\ kept.kind = "kept"
    /\ kept' = [kept EXCEPT
                   !.analysis_data =
                       GenerateDailyPublication(@, IngestAllData(files).raw_data,
                                                date_str).analysis_data,
                   !.generated = @ \cup {"daily"}]
    /\ UNCHANGED <<contradiction_frameworks, raw_data, outcome, earlier, now, run, analysis>>

\* the caller hands the result it keeps to generate_weekly_publication
CallerGeneratesWeekly(date_str, files) ==
    /\ kept.kind = "kept"
    /\ kept' = [kept EXCEPT
                   !.analysis_data =
                       GenerateWeeklyPublication(@, IngestAllData(files).raw_data,
                                                 date_str).analysis_data,
                   !.generated = @ \cup {"weekly"}]
    /\ UNCHANGED <<contradiction_frameworks, raw_data, outcome, earlier, now, run, analysis>>

Next ==
    \E g \in Optional(GlobalSentiments), l \in Optional(LocalSentiments),
       mrn \in NiftyMrns :
        CalculateMasterDivergenceIndex(RawData(g, l, mrn))

Spec == Init /\ [][Next]_vars

\* the publisher: calls of publish, publish_daily and publish_weekly on one
\* publisher, runs of the program, and the clock
NextPublisher ==
    \/ \E date_str \in DateStrs, files \in InputFiles, unwritable \in Unwritables :
           Publish(date_str, files, unwritable)
    \/ \E args \in Arguments, files \in InputFiles :
           \E unwritable \in {{}, {OutputFile("daily", "json")}} :
               Main(args, files, unwritable)
    \/ \E publication \in {"daily", "weekly"}, date_str \in DirectDateStrs,
          files \in InputFiles :
           \E unwritable \in {u \in Unwritables :
                                  \A file \in u : file.publication = publication} :
               PublishOne(publication, date_str, files, unwritable)
    \/ Tick

SpecPublisher == Init /\ [][NextPublisher]_vars

\* analyze_frameworks of Publish.py is called on the argument the last pass
\* of publish.py was given
AnalyzeSameSnapshot ==
    /\ outcome.kind # "none"
    /\ \E t \in now..MaxClock :
          /\ analysis' = Returned(AnalyzeFrameworks(raw_data, t))
          /\ now' = t
    /\ UNCHANGED <<contradiction_frameworks, raw_data, outcome, earlier, run, kept>>

\* the two versions given the same snapshots: sentiments absent, 10.0 and
\* 1.0 against absent, 1.0 and 0.0; durations absent, 16 of 21, 3 of 5 and
\* 3 of 0
VersionSnapshots ==
    {RawData(g, l, mrn) :
        g \in {{}, {1000}, {100}}, l \in {{}, {100}, {0}},
        mrn \in {MrnEntry({}, {}), MrnEntry({16}, {21}), MrnEntry({3}, {5}),
                 MrnEntry({3}, {0})}}

NextVersions ==
    \/ \E rd \in VersionSnapshots : CalculateMasterDivergenceIndex(rd)
    \/ AnalyzeSameSnapshot

SpecVersions == Init /\ [][NextVersions]_vars

\* a caller of the engine that keeps a result and renders it
NextCaller ==
    \/ \E rd \in CallerSnapshots : CalculateMasterDivergenceIndex(rd)
    \/ CallerKeeps
    \/ \E date_str \in DateStrs, files \in InputFiles :
           \/ CallerGeneratesDaily(date_str, files)
           \/ CallerGeneratesWeekly(date_str, files)

SpecCaller == Init /\ [][NextCaller]_vars

(***************************************************************************)
(* Vocabulary of the properties.                                           *)
(***************************************************************************)
PassReturned == outcome.kind = "return"
PassRaised   == outcome.kind = "raise"
PassMade     == outcome.kind # "none"

\* what the last pass read from its argument
GivenGlobal      == GlobalSentiment(raw_data)
GivenLocal       == LocalSentiment(raw_data)
GivenMrnDuration == MrnDuration(raw_data)
GivenMaxDuration == MaxDuration(raw_data)

\* the rational q is num / den (den > 0)
IsRatio(q, num, den) == q.d > 0 /\ q.n * den = num * q.d
\* the rational q is strictly greater than the integer k
Exceeds(q, k) == q.n > k * q.d

ReportedLevel(name)  == outcome.value.frameworks[name].level
ReportedStatus(name) == outcome.value.frameworks[name].status

OpportunityTypes(result) ==
    {result.opportunities[i].type : i \in 1..Len(result.opportunities)}

PositionsOf(result, type) ==
    {i \in 1..Len(result.opportunities) : result.opportunities[i].type = type}

\* C1: whenever a pass returns for a snapshot with local_sentiment # 0, the
\* level of global_vs_local is |(global - local) / local| * 100, in the
\* engine's table, in frameworks.global_vs_local.level and in
\* summary.divergence_percentage.
C1_DivergenceFormula ==
    (PassReturned /\ GivenLocal # 0) =>
        /\ IsRatio(ReportedLevel("global_vs_local"),
                   Abs(GivenGlobal - GivenLocal) * 100, Abs(GivenLocal))
        /\ outcome.value.summary.divergence_percentage = ReportedLevel("global_vs_local")
        /\ contradiction_frameworks["global_vs_local"].current_level
              = ReportedLevel("global_vs_local")

\* a pass has returned for global 10.0 against local -1.0: the level is 1100
C1_Witness ==
    /\ PassReturned
    /\ GivenGlobal = 1000 /\ GivenLocal = -100
    /\ ReportedLevel("global_vs_local") = Whole(1100)

\* C2: whenever a pass was made with local_sentiment = 0, whatever the global
\* sentiment, the level of global_vs_local is exactly 6000 and its status is
\* CRITICAL, and the pass raised only if max_duration was 0; the returned
\* result reports that level and status.
C2_ZeroLocalSentinel ==
    (PassMade /\ GivenLocal = 0) =>
        /\ contradiction_frameworks["global_vs_local"].current_level = Whole(6000)
        /\ contradiction_frameworks["global_vs_local"].status = CRITICAL
        /\ PassRaised => GivenMaxDuration = 0
        /\ PassReturned =>
              /\ ReportedLevel("global_vs_local") = Whole(6000)
              /\ ReportedStatus("global_vs_local") = CRITICAL
              /\ outcome.value.summary.divergence_percentage = Whole(6000)

\* a pass has returned for local 0.0 and global 0.0
C2_Witness ==
    /\ PassReturned
    /\ GivenLocal = 0 /\ GivenGlobal = 0
    /\ ReportedLevel("global_vs_local") = Whole(6000)

\* C3: in every returned result the status of global_vs_local is CRITICAL
\* if its level > 1000, else WARNING if its level > 100, else NORMAL, with
\* strict comparisons: exactly 1000 is WARNING, exactly 100 is NORMAL.
C3_GlobalVsLocalStatus ==
    PassReturned =>
        LET level  == ReportedLevel("global_vs_local")
            status == ReportedStatus("global_vs_local")
        IN  /\ Exceeds(level, 1000) => status = CRITICAL
            /\ (~Exceeds(level, 1000) /\ Exceeds(level, 100)) => status = WARNING
            /\ ~Exceeds(level, 100) => status = NORMAL
            /\ level = Whole(1000) => status = WARNING
            /\ level = Whole(100) => status = NORMAL
            /\ contradiction_frameworks["global_vs_local"].status = status

\* a pass has returned with the level exactly 1000 (global 9.0, local -1.0)
C3_Witness ==
    /\ PassReturned
    /\ ReportedLevel("global_vs_local") = Whole(1000)
    /\ ReportedStatus("global_vs_local") = WARNING

\* the frameworks a result reports strictly above their threshold
ReportedAbove(result) ==
    {k \in DOMAIN result.frameworks :
        RGt(result.frameworks[k].level, result.frameworks[k].threshold)}

\* the sum over the frameworks of S of min(level / 100, 10) * weight, the
\* levels as the result reports them, the weights as the engine holds them
RECURSIVE WeightedSum(_, _)
WeightedSum(result, S) ==
    IF S = {} THEN Whole(0)
    ELSE LET k      == CHOOSE x \in S : TRUE
             level  == result.frameworks[k].level
             capped == IF Exceeds(level, 1000) THEN Whole(10)
                       ELSE Rat(level.n, level.d * 100)
         IN  RAdd(RMul(capped, contradiction_frameworks[k].weight),
                  WeightedSum(result, S \ {k}))

\* C4: in every returned result master_divergence_index is the sum, over
\* exactly the frameworks whose level is strictly above their threshold, of
\* min(level / 100, 10) * weight; the others contribute nothing, whatever
\* their status.
C4_MasterIndexIsWeightedSum ==
    PassReturned =>
        /\ DOMAIN outcome.value.frameworks = FrameworkNames
        /\ outcome.value.master_divergence_index
              = WeightedSum(outcome.value, ReportedAbove(outcome.value))

\* a pass has returned with quantitative_regime exactly on its threshold of
\* 75 and flagged WARNING, and with global_vs_local above the cap
C4_Witness ==
    /\ PassReturned
    /\ ReportedLevel("quantitative_regime") = Whole(75)
    /\ ReportedStatus("quantitative_regime") = WARNING
    /\ "quantitative_regime" \notin ReportedAbove(outcome.value)
    /\ Exceeds(ReportedLevel("global_vs_local"), 1000)

\* C5: in every returned result critical_frameworks is the number of
\* frameworks reported CRITICAL, and system_status is CRITICAL when that
\* number is >= 3, WARNING when it is >= 1, NORMAL otherwise.
C5_CriticalCountAndSystemStatus ==
    PassReturned =>
        LET n == Cardinality({k \in DOMAIN outcome.value.frameworks :
                                 ReportedStatus(k) = CRITICAL})
        IN  /\ outcome.value.critical_frameworks = n
            /\ n >= 3 => outcome.value.system_status = CRITICAL
            /\ (n < 3 /\ n >= 1) => outcome.value.system_status = WARNING
            /\ n < 1 => outcome.value.system_status = NORMAL

\* a pass has returned with four critical frameworks and a flagged fifth
C5_Witness ==
    /\ PassReturned
    /\ outcome.value.critical_frameworks = 4
    /\ ReportedStatus("global_vs_local") = WARNING
    /\ outcome.value.system_status = CRITICAL

\* C6: a pass made with max_duration = 0 raises the division error (the
\* spec's DivisionGuard is Python's ZeroDivisionError here) and returns no
\* result.
C6_ZeroMaxDurationRaises ==
    (PassMade /\ GivenMaxDuration = 0) =>
        /\ outcome = Raised("ZeroDivisionError")
        /\ ~PassReturned

\* a pass has been made with max_duration = 0 after a pass that returned
C6_Witness ==
    /\ PassRaised
    /\ GivenMaxDuration = 0
    /\ contradiction_frameworks["us_economic_backdrop"].status = WARNING

\* a result with its timestamp blanked
WithoutTimestamp(result) == [result EXCEPT !.timestamp = 0]

\* both of two consecutive passes on the same argument returned
PassRepeated == PassReturned /\ earlier.kind = "return"

GlobalLocalArbitrage(level) ==
    [type |-> "Global-Local Arbitrage",
     strategy |-> "Long international, short local",
     magnitude |-> level,
     timeline |-> "2-8 weeks",
     confidence |-> "Very High"]

MultiFrameworkArbitrage(index) ==
    [type |-> "Multi-Framework Arbitrage",
     strategy |-> "Position across contradictions",
     magnitude |-> Rat(index.n * 100, index.d),
     timeline |-> "1-4 weeks",
     confidence |-> "High"]

\* C8: a returned result holds a Global-Local Arbitrage opportunity if and
\* only if the level of global_vs_local is strictly above 1000, and that
\* record carries the level as its magnitude; when global equals a non-zero
\* local sentiment the level is 0, the status NORMAL and no such record is
\* emitted.
C8_GlobalLocalArbitrage ==
    PassReturned =>
        LET level == ReportedLevel("global_vs_local")
            at    == PositionsOf(outcome.value, "Global-Local Arbitrage")
        IN  /\ (at # {}) <=> Exceeds(level, 1000)
            /\ \A i \in at : outcome.value.opportunities[i] = GlobalLocalArbitrage(level)
            /\ (GivenGlobal = GivenLocal /\ GivenLocal # 0) =>
                  /\ level = Whole(0)
                  /\ ReportedStatus("global_vs_local") = NORMAL
                  /\ at = {}

\* a pass has returned with the level exactly 1000: no Global-Local record
C8_Witness ==
    /\ PassReturned
    /\ ReportedLevel("global_vs_local") = Whole(1000)
    /\ PositionsOf(outcome.value, "Global-Local Arbitrage") = {}

\* C9: a returned result holds a Multi-Framework Arbitrage opportunity if
\* and only if critical_frameworks >= 2, with magnitude
\* master_divergence_index * 100; there is at most one record of each type
\* and no other record, and the Multi-Framework record comes after the
\* Global-Local record when both are there.
C9_MultiFrameworkArbitrage ==
    PassReturned =>
        LET gl == PositionsOf(outcome.value, "Global-Local Arbitrage")
            mf == PositionsOf(outcome.value, "Multi-Framework Arbitrage")
        IN  /\ (mf # {}) <=> outcome.value.critical_frameworks >= 2
            /\ \A i \in mf : outcome.value.opportunities[i]
                  = MultiFrameworkArbitrage(outcome.value.master_divergence_index)
            /\ Cardinality(gl) <= 1 /\ Cardinality(mf) <= 1
            /\ gl \cup mf = 1..Len(outcome.value.opportunities)
            /\ \A i \in gl, j \in mf : i < j

\* a pass has returned both records, Global-Local first
C9_Witness ==
    /\ PassReturned
    /\ Len(outcome.value.opportunities) = 2
    /\ outcome.value.opportunities[1].type = "Global-Local Arbitrage"
    /\ outcome.value.opportunities[2].type = "Multi-Framework Arbitrage"

\* C10 as stated: there is a snapshot with max_duration > 0 for which a pass
\* on the engine returns a result with zero opportunities.
C10_SomeSnapshotYieldsNoOpportunity ==
    \E g \in Optional(GlobalSentiments), l \in Optional(LocalSentiments),
       mrn \in NiftyMrns :
        LET rd == RawData(g, l, mrn)
        IN  /\ MaxDuration(rd) > 0
            /\ ResultOfPass(TableAfterPass(contradiction_frameworks, rd), rd, now)
                  .opportunities = << >>

\* C10 as amended: a record is in the list only when its trigger holds
\* (Global-Local: level > 1000; Multi-Framework: critical_frameworks >= 2),
\* the Global-Local record may be missing, but the list is never empty:
\* frameworks 2 to 5 are always CRITICAL, so every returned result holds the
\* Multi-Framework record and has one or two opportunities.
C10_OpportunitiesNeverEmpty ==
    PassReturned =>
        /\ Len(outcome.value.opportunities) \in {1, 2}
        /\ "Multi-Framework Arbitrage" \in OpportunityTypes(outcome.value)
        /\ outcome.value.critical_frameworks >= 4
        /\ ("Global-Local Arbitrage" \in OpportunityTypes(outcome.value))
              => Exceeds(ReportedLevel("global_vs_local"), 1000)

\* a pass has returned, for equal sentiments and a short MRN duration, a
\* list holding the Multi-Framework record alone
C10_Witness ==
    /\ PassReturned
    /\ GivenGlobal = GivenLocal
    /\ ReportedStatus("quantitative_regime") = NORMAL
    /\ Len(outcome.value.opportunities) = 1

\* the rational q, rounded to two decimals, is hundredths / 100
Near(q, hundredths) == Abs(q.n * 100 - hundredths * q.d) * 2 <= q.d

\* C11 as stated: for the snapshot global 6.0, local 0.09 the level of
\* global_vs_local is about 6466.67, CRITICAL, and the Global-Local
\* Arbitrage record carries about 6466.67 as its magnitude.
C11_Level6466 ==
    (PassReturned /\ GivenGlobal = 600 /\ GivenLocal = 9) =>
        /\ Near(ReportedLevel("global_vs_local"), 646667)
        /\ ReportedStatus("global_vs_local") = CRITICAL
        /\ \E i \in PositionsOf(outcome.value, "Global-Local Arbitrage") :
               Near(outcome.value.opportunities[i].magnitude, 646667)

\* C11 as amended: for the snapshot global 6.0, local 0.09 the level of
\* global_vs_local is |6.0 - 0.09| / 0.09 * 100 = 19700/3, about 6566.67,
\* its status is CRITICAL, and the result holds the Global-Local Arbitrage
\* record with that level as its magnitude.
C11_Level6566 ==
    (PassReturned /\ GivenGlobal = 600 /\ GivenLocal = 9) =>
        /\ IsRatio(ReportedLevel("global_vs_local"), 19700, 3)
        /\ Near(ReportedLevel("global_vs_local"), 656667)
        /\ ReportedStatus("global_vs_local") = CRITICAL
        /\ \E i \in PositionsOf(outcome.value, "Global-Local Arbitrage") :
               /\ outcome.value.opportunities[i]
                     = GlobalLocalArbitrage(Rat(19700, 3))
               /\ Near(outcome.value.opportunities[i].magnitude, 656667)

\* a pass has returned for global 6.0 against local 0.09
C11_Witness ==
    /\ PassReturned
    /\ GivenGlobal = 600 /\ GivenLocal = 9
    /\ ReportedStatus("global_vs_local") = CRITICAL
    /\ OpportunityTypes(outcome.value)
          = {"Global-Local Arbitrage", "Multi-Framework Arbitrage"}

\* C12: whenever a pass returns (max_duration > 0) the level of
\* quantitative_regime is mi_duration / max_duration * 100, its status is
\* WARNING when that level is strictly above 60 and NORMAL otherwise, never
\* CRITICAL; for mi_duration 14 and max_duration 21 the level is 200/3
\* (66.66...) and the status WARNING.
C12_QuantitativeRegime ==
    (PassReturned /\ GivenMaxDuration > 0) =>
        LET level == ReportedLevel("quantitative_regime")
        IN  /\ IsRatio(level, GivenMrnDuration * 100, GivenMaxDuration)
            /\ contradiction_frameworks["quantitative_regime"].current_level = level
            /\ ReportedStatus("quantitative_regime")
                  = IF GivenMrnDuration * 100 > 60 * GivenMaxDuration
                    THEN WARNING ELSE NORMAL
            /\ ReportedStatus("quantitative_regime") # CRITICAL
            /\ contradiction_frameworks["quantitative_regime"].status
                  = ReportedStatus("quantitative_regime")
            /\ (GivenMrnDuration = 14 /\ GivenMaxDuration = 21) =>
                  /\ IsRatio(level, 200, 3)
                  /\ Near(level, 6667)
                  /\ ReportedStatus("quantitative_regime") = WARNING

\* a pass has returned for the durations 14 of 21
C12_Witness ==
    /\ PassReturned
    /\ GivenMrnDuration = 14 /\ GivenMaxDuration = 21
    /\ ReportedStatus("quantitative_regime") = WARNING
    /\ ReportedLevel("quantitative_regime") = Rat(200, 3)

\* the level and status the code assigns to the five fixed frameworks
FixedAssignments ==
    [economic_assessment    |-> [level |-> Whole(75),      status |-> CRITICAL],
     credit_vs_fundamentals |-> [level |-> Whole(126),     status |-> CRITICAL],
     risk_vs_activity       |-> [level |-> Whole(100),     status |-> CRITICAL],
     sector_intelligence    |-> [level |-> Rat(1143, 10),  status |-> CRITICAL],
     us_economic_backdrop   |-> [level |-> Whole(50),      status |-> WARNING]]

\* C13: after every pass that returns, economic_assessment,
\* credit_vs_fundamentals, risk_vs_activity and sector_intelligence have the
\* levels 75.0, 126.0, 100.0 and 114.3 with status CRITICAL, and
\* us_economic_backdrop has level 50.0 with status WARNING, whatever the
\* snapshot holds, in the engine's table and in the returned result.
C13_FixedFrameworks ==
    PassReturned =>
        \A name \in DOMAIN FixedAssignments :
            /\ ReportedLevel(name)  = FixedAssignments[name].level
            /\ ReportedStatus(name) = FixedAssignments[name].status
            /\ contradiction_frameworks[name].current_level
                  = FixedAssignments[name].level
            /\ contradiction_frameworks[name].status
                  = FixedAssignments[name].status

\* a pass has returned for a snapshot none of whose values is a default, and
\* reports the fixed levels
C13_Witness ==
    /\ PassReturned
    /\ GivenGlobal = 0 /\ GivenLocal = -100
    /\ GivenMrnDuration = 3 /\ GivenMaxDuration = 4
    /\ ReportedLevel("sector_intelligence") = Rat(1143, 10)
    /\ ReportedStatus("us_economic_backdrop") = WARNING

\* threshold and weight (in hundredths) of the seven frameworks, as listed
FrameworkConfiguration ==
    [global_vs_local        |-> [threshold |-> 100, weight |-> 20],
     economic_assessment    |-> [threshold |-> 50,  weight |-> 15],
     credit_vs_fundamentals |-> [threshold |-> 25,  weight |-> 15],
     risk_vs_activity       |-> [threshold |-> 50,  weight |-> 15],
     sector_intelligence    |-> [threshold |-> 20,  weight |-> 10],
     quantitative_regime    |-> [threshold |-> 75,  weight |-> 15],
     us_economic_backdrop   |-> [threshold |-> 30,  weight |-> 10]]

\* the sum of the weights of the first i frameworks of a table
RECURSIVE WeightSumUpTo(_, _)
WeightSumUpTo(frameworks, i) ==
    IF i = 0 THEN Whole(0)
    ELSE RAdd(WeightSumUpTo(frameworks, i - 1), frameworks[FrameworkKeys[i]].weight)

\* C14: the engine's table holds exactly the seven named frameworks, with
\* the thresholds 100, 50, 25, 50, 20, 75, 30 and the weights 0.20, 0.15,
\* 0.15, 0.15, 0.10, 0.15, 0.10, and the seven weights sum to exactly 1; a
\* returned result reports the same seven names and thresholds.
C14_FrameworkConfiguration ==
    /\ DOMAIN contradiction_frameworks = DOMAIN FrameworkConfiguration
    /\ Cardinality(DOMAIN contradiction_frameworks) = 7
    /\ \A name \in DOMAIN FrameworkConfiguration :
          /\ contradiction_frameworks[name].threshold
                = Whole(FrameworkConfiguration[name].threshold)
          /\ IsRatio(contradiction_frameworks[name].weight,
                     FrameworkConfiguration[name].weight, 100)
    /\ WeightSumUpTo(contradiction_frameworks, 7) = Whole(1)
    /\ PassReturned =>
          /\ DOMAIN outcome.value.frameworks = DOMAIN FrameworkConfiguration
          /\ \A name \in DOMAIN FrameworkConfiguration :
                outcome.value.frameworks[name].threshold
                   = Whole(FrameworkConfiguration[name].threshold)

\* the engine has been used: a pass has returned, and the table it leaves
\* still carries the configuration
C14_Witness ==
    /\ PassReturned
    /\ contradiction_frameworks["quantitative_regime"].threshold = Whole(75)
    /\ contradiction_frameworks["global_vs_local"].weight = Rat(1, 5)
    /\ outcome.value.summary.total_contradictions = 7

\* the fields of a framework that are configuration
Configuration(framework) ==
    [name        |-> framework.name,
     threshold   |-> framework.threshold,
     weight      |-> framework.weight,
     implication |-> framework.implication]

\* C15: no step of the engine, whether the pass returns or raises, changes
\* the set of framework keys or the name, threshold, weight or implication
\* of any framework, and these stay equal to the values given at
\* construction; a step writes current_level and status only.
C15_ConfigurationIsNeverWritten ==
    [][/\ DOMAIN contradiction_frameworks' = DOMAIN contradiction_frameworks
       /\ DOMAIN contradiction_frameworks' = DOMAIN InitialFrameworks
       /\ \A key \in DOMAIN contradiction_frameworks :
             /\ Configuration(contradiction_frameworks'[key])
                   = Configuration(contradiction_frameworks[key])
             /\ Configuration(contradiction_frameworks'[key])
                   = Configuration(InitialFrameworks[key])]_vars

\* a pass has raised on an engine whose earlier pass had returned: the table
\* holds levels written by both
C15_Witness ==
    /\ PassRaised
    /\ contradiction_frameworks["us_economic_backdrop"].current_level = Whole(50)
    /\ contradiction_frameworks["global_vs_local"].current_level = Whole(1100)
    /\ contradiction_frameworks["quantitative_regime"].current_level = Rat(1600, 21)

\* the table a returning pass would leave for the snapshot rd, and the
\* index it would report
LevelFor(rd, name) == TableAfterPass(contradiction_frameworks, rd)[name].current_level
IndexFor(rd) == TotalScore(TableAfterPass(contradiction_frameworks, rd))

\* the snapshots that differ from the last one in the sentiments only, and
\* in the MRN entry only
SameButSentiments ==
    {RawData(g, l, raw_data.nifty_mrn) :
        g \in Optional(GlobalSentiments), l \in Optional(LocalSentiments)}
SameButMrn ==
    {RawData(raw_data.global_sentiment.sentiment_score,
             raw_data.market_trend.sentiment_score, mrn) :
        mrn \in {m \in NiftyMrns : ~DivisionRaises(Get(m.mi_duration, 14),
                                                   Get(m.max_duration, 21))}}

\* an / ad >= bn / bd for non-negative fractions, by comparing the whole
\* parts and then the reciprocals of the remainders (no cross product)
RECURSIVE FractionAtLeast(_, _, _, _)
FractionAtLeast(an, ad, bn, bd) ==
    IF an \div ad # bn \div bd THEN an \div ad > bn \div bd
    ELSE IF bn % bd = 0 THEN TRUE
    ELSE IF an % ad = 0 THEN FALSE
    ELSE FractionAtLeast(bd, bn % bd, ad, an % ad)

AtLeast(a, b) == FractionAtLeast(a.n, a.d, b.n, b.d)

\* among the snapshots S, which move the level of one framework only: where
\* both levels are above the threshold the higher level has the index that
\* is at least as large, and where both are at or above 1000 (level / 100
\* at the cap of 10) the indices are equal
MonotoneIn(S, name, threshold) ==
    \A rd \in S :
        LET mine   == ReportedLevel(name)
            theirs == LevelFor(rd, name)
        IN  (Exceeds(mine, threshold) /\ Exceeds(theirs, threshold)
                /\ AtLeast(theirs, mine)) =>
                /\ AtLeast(IndexFor(rd), outcome.value.master_divergence_index)
                /\ AtLeast(mine, Whole(1000)) =>
                      IndexFor(rd) = outcome.value.master_divergence_index

\* C16: with every other framework held fixed, master_divergence_index does
\* not decrease when the level of global_vs_local rises (both levels above
\* 100) or when the level of quantitative_regime rises (both above 75), and
\* it no longer increases once level / 100 has reached the cap of 10.
C16_IndexMonotoneAndCapped ==
    PassReturned =>
        /\ MonotoneIn(SameButSentiments, "global_vs_local", 100)
        /\ MonotoneIn(SameButMrn, "quantitative_regime", 75)

\* a pass has returned with global_vs_local at 900: a snapshot that differs
\* in the sentiments only lifts the level to the cap and the index with it,
\* and a further one lifts the level beyond the cap and leaves the index
C16_Witness ==
    /\ PassReturned
    /\ ReportedLevel("global_vs_local") = Whole(900)
    /\ \E rd \in SameButSentiments, higher \in SameButSentiments :
          /\ LevelFor(rd, "global_vs_local") = Whole(1000)
          /\ ~AtLeast(outcome.value.master_divergence_index, IndexFor(rd))
          /\ Exceeds(LevelFor(higher, "global_vs_local"), 1000)
          /\ IndexFor(higher) = IndexFor(rd)

\* a framework with its two written fields put back to their initial values
Unwritten(framework) ==
    [framework EXCEPT !.current_level = Whole(0), !.status = NORMAL]

\* C17 as stated: the table is read-only after initialization, no step of
\* the engine changes any field of any entry of contradiction_frameworks.
C17_TableIsReadOnly ==
    [][contradiction_frameworks' = contradiction_frameworks]_vars

\* C17 as amended: the table is state that the passes share and write.
\* Once a pass has been made the table differs from the constructed one,
\* in current_level and status only; a pass that returns leaves in all
\* seven entries the level and status it reports, and a pass that raises
\* leaves the five entries it reached written for its own snapshot.
C17_TableIsWrittenByEveryPass ==
    PassMade =>
        /\ contradiction_frameworks # InitialFrameworks
        /\ \A key \in DOMAIN contradiction_frameworks :
              Unwritten(contradiction_frameworks[key]) = InitialFrameworks[key]
        /\ contradiction_frameworks["economic_assessment"].current_level = Whole(75)
        /\ contradiction_frameworks["economic_assessment"].status = CRITICAL
        /\ PassReturned =>
              \A key \in DOMAIN contradiction_frameworks :
                  /\ contradiction_frameworks[key].current_level = ReportedLevel(key)
                  /\ contradiction_frameworks[key].status = ReportedStatus(key)
        /\ (PassRaised /\ GivenLocal # 0) =>
              IsRatio(contradiction_frameworks["global_vs_local"].current_level,
                      Abs(GivenGlobal - GivenLocal) * 100, Abs(GivenLocal))

\* a pass has raised on a fresh engine: quantitative_regime is as
\* constructed, global_vs_local is written
C17_Witness ==
    /\ PassRaised
    /\ contradiction_frameworks["quantitative_regime"]
          = InitialFrameworks["quantitative_regime"]
    /\ contradiction_frameworks["global_vs_local"].current_level = Whole(1000)
    /\ contradiction_frameworks["global_vs_local"].status = WARNING

Thursday20250605 == <<2, 0, 2, 5, 0, 6, 0, 5>>
Friday20250606   == <<2, 0, 2, 5, 0, 6, 0, 6>>
CalendarDates    == {Thursday20250605, Friday20250606}

\* the program has run with one argument
MainRanWith(date_str) == run.op = "main" /\ run.args = <<date_str>>

\* the steps of a run that belong to one publication
StepsOf(publication) ==
    {i \in 1..Len(run.steps) : run.steps[i].publication = publication}

\* the ingestion of the daily publication had no success
IngestionFailedTotally ==
    /\ Len(run.reports) >= 1
    /\ run.reports[1].success_count = 0

C20_DailyFirstWeeklyOnFriday ==
    run.op = "publish" =>
        LET date_str == run.args[1]
        IN  IF date_str \in CalendarDates
            THEN /\ run.steps # << >>
                 /\ run.steps[1] = Step("daily", "ingest")
                 /\ (StepsOf("weekly") # {}) <=> date_str = Friday20250606
                 /\ \A i \in StepsOf("daily"), j \in StepsOf("weekly") : i < j
                 /\ date_str # Friday20250606 =>
                       /\ run.results.weekly = FALSE
                       /\ \A k \in 1..Len(run.written) :
                             run.written[k].path.publication # "weekly"
            ELSE /\ run.results = [daily |-> FALSE, weekly |-> FALSE]
                 /\ run.steps = << >>
                 /\ run.written = << >>

\* publish was called for the Friday, the daily publication failed at its
\* HTML file, and the weekly publication was generated and saved
C20_Witness ==
    /\ run.op = "publish"
    /\ run.args = << Friday20250606 >>
    /\ run.results = [daily |-> FALSE, weekly |-> TRUE]
    /\ Len(run.written) = 2
    /\ run.written[1].path = OutputFile("weekly", "html")
    /\ run.written[2].path = OutputFile("weekly", "json")

\* a call of publish, publish_daily or publish_weekly, or a run of main, has
\* been made
HasRun == run.op # "none"

\* the run took the step of the publication
Took(publication, step) ==
    \E i \in 1..Len(run.steps) : run.steps[i] = Step(publication, step)

\* the run took the step of some publication
TookSome(step) == Took("daily", step) \/ Took("weekly", step)

\* the files the run wrote whose name ends as given ("html" or "json")
WrittenFiles(file) ==
    {i \in 1..Len(run.written) : run.written[i].path.file = file}

\* C21: on every path from ingest_all_data to
\* calculate_master_divergence_index in publish_daily and publish_weekly the
\* scorer receives a max_duration greater than 0: the nifty_mrn record of
\* raw_data carries max_duration 21 and an mi_duration within 1..30, the
\* scorer reads 21 when the record is absent, and no pass of the pipeline
\* raises.
C21_PipelineMaxDurationIs21 ==
    /\ ~PassRaised
    /\ (HasRun /\ TookSome("score")) =>
          /\ PassReturned
          /\ raw_data.nifty_mrn.max_duration \in {{}, {21}}
          /\ GivenMaxDuration = 21
          /\ GivenMaxDuration > 0
          /\ GivenMrnDuration \in 1..30
          /\ IsRatio(ReportedLevel("quantitative_regime"),
                     GivenMrnDuration * 100, 21)
    /\ HasRun =>
          \A i \in WrittenFiles("json") :
              "nifty_mrn" \in DOMAIN run.written[i].content.raw_data =>
                  /\ run.written[i].content.raw_data["nifty_mrn"].max_duration = 21
                  /\ run.written[i].content.raw_data["nifty_mrn"].mi_duration \in 1..30

\* publish_daily has scored a raw_data in which the processing of nifty_mrn
\* raised, so that the record is absent: the scorer read 14 and 21 and
\* returned the level 14/21 * 100
C21_Witness ==
    /\ run.op = "daily"
    /\ Took("daily", "score")
    /\ Len(run.reports[1].issues) = 8
    /\ raw_data.nifty_mrn = MrnEntry({}, {})
    /\ PassReturned
    /\ IsRatio(ReportedLevel("quantitative_regime"), 1400, 21)
    /\ run.results = TRUE

\* the flag the run reports for the publication
FlagOf(publication) ==
    IF run.op = "publish" THEN run.results[publication]
    ELSE IF run.op = "main"
    THEN (CHOOSE results \in run.results : TRUE)[publication]
    ELSE run.results

\* the run wrote the file of the publication
Wrote(publication, file) ==
    \E i \in 1..Len(run.written) :
        run.written[i].path = OutputFile(publication, file)

\* the last step the run took for the publication
LastStepOf(publication) ==
    run.steps[CHOOSE i \in StepsOf(publication) :
                  \A j \in StepsOf(publication) : j <= i].step

\* a step of the publication raised: the scorer or the generator did not
\* return, or an output file could not be opened
StepRaised(publication) ==
    /\ StepsOf(publication) # {}
    /\ \/ LastStepOf(publication) \in {"score", "render"}
       \/ LastStepOf(publication) = "write_html" /\ ~Wrote(publication, "html")
       \/ LastStepOf(publication) = "write_json" /\ ~Wrote(publication, "json")

\* C22: a failure surfaces only as a boolean flag: publish_daily and
\* publish_weekly return a boolean for every string, False whenever a step
\* raised and whenever ingestion had no success; publish returns a
\* dictionary with exactly the keys daily and weekly, both booleans, for
\* every string, a date or not.
C22_FailureIsAFalseFlag ==
    /\ run.op \in {"daily", "weekly"} =>
          /\ run.results \in BOOLEAN
          /\ StepsOf(run.op) # {}
          /\ StepRaised(run.op) => run.results = FALSE
          /\ run.reports[1].success_count = 0 => run.results = FALSE
          /\ run.exit_code = {}
    /\ run.op = "publish" =>
          /\ DOMAIN run.results = {"daily", "weekly"}
          /\ \A publication \in {"daily", "weekly"} :
                /\ run.results[publication] \in BOOLEAN
                /\ StepRaised(publication) => run.results[publication] = FALSE
          /\ run.exit_code = {}

\* publish was called for the Friday and the daily JSON file could not be
\* opened: the daily flag is False, the weekly publication was generated
\* and saved after it, and its flag is True
C22_Witness ==
    /\ run.op = "publish"
    /\ run.args = << Friday20250606 >>
    /\ StepRaised("daily")
    /\ LastStepOf("daily") = "write_json"
    /\ run.results = [daily |-> FALSE, weekly |-> TRUE]
    /\ Wrote("weekly", "json")

\* the table flags the framework: its status is WARNING or CRITICAL
Flagged(key) == contradiction_frameworks[key].status \in {WARNING, CRITICAL}

\* the level the table holds for the framework is above its threshold, which
\* is the condition under which the loop adds the framework to total_score
AboveThreshold(key) ==
    RGt(contradiction_frameworks[key].current_level,
        contradiction_frameworks[key].threshold)

\* C23 as stated: in every reachable state of the engine a framework whose
\* status is WARNING or CRITICAL has a current_level strictly greater than
\* its threshold, so that every flagged framework contributes to the index.
C23_FlaggedExceedsThreshold ==
    \A key \in DOMAIN contradiction_frameworks :
        Flagged(key) => AboveThreshold(key)

\* C23: in every reachable state of the engine each framework other than
\* quantitative_regime that is flagged WARNING or CRITICAL has a level above
\* its threshold and so contributes to the index; quantitative_regime is
\* WARNING exactly when its level is above 60, never CRITICAL, while its
\* threshold is 75, so that with a level above 60 and at most 75 it is
\* flagged and contributes nothing.
C23_FlaggedExceedsThresholdButRegime ==
    /\ \A key \in DOMAIN contradiction_frameworks \ {"quantitative_regime"} :
          Flagged(key) => AboveThreshold(key)
    /\ contradiction_frameworks["quantitative_regime"].status \in {NORMAL, WARNING}
    /\ Flagged("quantitative_regime")
          <=> Exceeds(contradiction_frameworks["quantitative_regime"].current_level, 60)
    /\ contradiction_frameworks["quantitative_regime"].threshold = Whole(75)
    /\ PassReturned =>
          outcome.value.summary.active_contradictions
              = Cardinality({key \in DOMAIN contradiction_frameworks :
                                AboveThreshold(key)})

\* a pass has returned for the durations 14 of 21: quantitative_regime is
\* WARNING at the level 66.67, below its threshold 75, the six other
\* frameworks are flagged above their thresholds, and six contradictions
\* are active
C23_Witness ==
    /\ PassReturned
    /\ GivenMrnDuration = 14 /\ GivenMaxDuration = 21
    /\ contradiction_frameworks["quantitative_regime"].status = WARNING
    /\ IsRatio(contradiction_frameworks["quantitative_regime"].current_level, 200, 3)
    /\ ~AboveThreshold("quantitative_regime")
    /\ \A key \in DOMAIN contradiction_frameworks \ {"quantitative_regime"} :
          Flagged(key) /\ AboveThreshold(key)
    /\ outcome.value.summary.active_contradictions = 6

\* the frameworks the returned result reports as CRITICAL
ReportedCritical ==
    {name \in DOMAIN outcome.value.frameworks : ReportedStatus(name) = CRITICAL}

\* C24: for every pass that returns, critical_frameworks is 4 or 5, and 5
\* exactly when the level of global_vs_local is above 1000; system_status
\* is CRITICAL, never WARNING or NORMAL; and the result holds a
\* Multi-Framework Arbitrage opportunity.
C24_FourOrFiveCriticalAlways ==
    PassReturned =>
        /\ outcome.value.critical_frameworks \in {4, 5}
        /\ outcome.value.critical_frameworks = Cardinality(ReportedCritical)
        /\ outcome.value.critical_frameworks = 5
              <=> Exceeds(ReportedLevel("global_vs_local"), 1000)
        /\ {"economic_assessment", "credit_vs_fundamentals",
            "risk_vs_activity", "sector_intelligence"}
              \subseteq ReportedCritical
        /\ outcome.value.system_status = CRITICAL
        /\ outcome.value.system_status \notin {WARNING, NORMAL}
        /\ PositionsOf(outcome.value, "Multi-Framework Arbitrage") # {}

\* a pass has returned with global_vs_local at the level 900, below 1000:
\* four frameworks are critical, the system is CRITICAL all the same, and
\* the only opportunity is the Multi-Framework Arbitrage
C24_Witness ==
    /\ PassReturned
    /\ IsRatio(ReportedLevel("global_vs_local"), 900, 1)
    /\ ReportedStatus("global_vs_local") = WARNING
    /\ outcome.value.critical_frameworks = 4
    /\ outcome.value.system_status = CRITICAL
    /\ OpportunityTypes(outcome.value) = {"Multi-Framework Arbitrage"}

\* what a new engine returns for the snapshot, the timestamp left aside
FreshResult(rd) ==
    WithoutTimestamp(ResultOfPass(TableAfterPass(InitialFrameworks, rd), rd, 0))

\* snapshots for the pass that follows a raising one: the defaults, and
\* global 10.0 against local 1.0 with 16 of 21 days
FollowingSnapshots == {NoRawData, RawData({1000}, {100}, MrnEntry({16}, {21}))}

\* C25: scoring does not depend on history: after any sequence of earlier
\* passes on the engine, raising ones included, a pass that returns gives in
\* every field but the timestamp the result a new engine gives for the same
\* snapshot, and leaves the table a new engine would leave.
C25_ScoringIsHistoryIndependent ==
    /\ PassReturned =>
          /\ WithoutTimestamp(outcome.value) = FreshResult(raw_data)
          /\ contradiction_frameworks = TableAfterPass(InitialFrameworks, raw_data)
    /\ PassRaised =>
          \A rd \in FollowingSnapshots :
              WithoutTimestamp(
                  ResultOfPass(TableAfterPass(contradiction_frameworks, rd), rd, now))
                 = FreshResult(rd)

\* the last pass raised on an engine whose table still holds the level 1600
\* an earlier pass left for quantitative_regime and the level 0 the raising
\* pass left for global_vs_local; the pass that follows on the default
\* snapshot returns what a new engine returns, 14/21 * 100 and 6566.67
C25_Witness ==
    /\ PassRaised
    /\ contradiction_frameworks["quantitative_regime"].current_level = Whole(1600)
    /\ contradiction_frameworks["global_vs_local"].current_level = Whole(0)
    /\ LET following == ResultOfPass(TableAfterPass(contradiction_frameworks, NoRawData),
                                     NoRawData, now)
       IN  /\ WithoutTimestamp(following) = FreshResult(NoRawData)
           /\ IsRatio(following.frameworks["quantitative_regime"].level, 200, 3)
           /\ IsRatio(following.frameworks["global_vs_local"].level, 19700, 3)

\* the status the thresholds 100 and 1000 give the level of global_vs_local
StatusOfDivergence(level) ==
    IF Exceeds(level, 1000) THEN CRITICAL
    ELSE IF Exceeds(level, 100) THEN WARNING
    ELSE NORMAL

\* the entry of global_vs_local holds the level and status of the snapshot
\* whose sentiments are global_sentiment and local_sentiment
HoldsDivergenceOf(framework, global_sentiment, local_sentiment) ==
    /\ IF local_sentiment # 0
       THEN IsRatio(framework.current_level,
                    Abs(global_sentiment - local_sentiment) * 100,
                    Abs(local_sentiment))
       ELSE framework.current_level = Whole(6000)
    /\ framework.status = StatusOfDivergence(framework.current_level)

\* C26: a pass that fails on max_duration = 0 leaves the table partially
\* updated: the first five frameworks hold the level and status of the
\* failing pass, and quantitative_regime and us_economic_backdrop keep the
\* entries they had before the pass.
C26_FailingPassUpdatesFirstFive ==
    [][ (outcome'.kind = "raise") =>
          /\ MaxDuration(raw_data') = 0
          /\ HoldsDivergenceOf(contradiction_frameworks'["global_vs_local"],
                               GlobalSentiment(raw_data'), LocalSentiment(raw_data'))
          /\ \A key \in DOMAIN FixedAssignments \ {"us_economic_backdrop"} :
                /\ contradiction_frameworks'[key].current_level
                      = FixedAssignments[key].level
                /\ contradiction_frameworks'[key].status
                      = FixedAssignments[key].status
          /\ contradiction_frameworks'["quantitative_regime"]
                = contradiction_frameworks["quantitative_regime"]
          /\ contradiction_frameworks'["us_economic_backdrop"]
                = contradiction_frameworks["us_economic_backdrop"] ]_vars

\* a pass has raised for global 9.0 against local 1.0: global_vs_local
\* holds 800 and WARNING from it, while quantitative_regime still holds the
\* level 1000 and us_economic_backdrop the level 50 of an earlier pass
C26_Witness ==
    /\ PassRaised
    /\ GivenGlobal = 900 /\ GivenLocal = 100
    /\ contradiction_frameworks["global_vs_local"].current_level = Whole(800)
    /\ contradiction_frameworks["global_vs_local"].status = WARNING
    /\ contradiction_frameworks["sector_intelligence"].status = CRITICAL
    /\ contradiction_frameworks["quantitative_regime"].current_level = Whole(1000)
    /\ contradiction_frameworks["quantitative_regime"].status = WARNING
    /\ contradiction_frameworks["us_economic_backdrop"].current_level = Whole(50)
    /\ contradiction_frameworks["us_economic_backdrop"].status = WARNING

\* 0.6158 = 0.75 * 0.15 + 1.26 * 0.15 + 1.0 * 0.15 + 1.143 * 0.10 + 0.5 * 0.10,
\* the contribution of the five frameworks with constant levels, and
\* 4.1158 = 0.6158 + 10 * 0.20 + 10 * 0.15, both other frameworks at the cap
LowestIndex  == Rat(6158, 10000)
HighestIndex == Rat(41158, 10000)

\* C27: for every pass that returns, master_divergence_index lies between
\* 0.6158 and 4.1158, both included, and summary.active_contradictions is
\* 5, 6 or 7; the index is 0.6158 exactly when five contradictions are
\* active.
C27_IndexAndActiveRange ==
    PassReturned =>
        /\ AtLeast(outcome.value.master_divergence_index, LowestIndex)
        /\ AtLeast(HighestIndex, outcome.value.master_divergence_index)
        /\ outcome.value.summary.active_contradictions \in {5, 6, 7}
        /\ outcome.value.summary.active_contradictions = 5
              <=> IsRatio(outcome.value.master_divergence_index, 6158, 10000)
        /\ outcome.value.summary.total_contradictions = 7

\* a pass has returned for equal sentiments and 3 of 5 days: neither
\* global_vs_local (level 0) nor quantitative_regime (level 60) is above its
\* threshold, five contradictions are active and the index is 0.6158
C27_Witness ==
    /\ PassReturned
    /\ GivenGlobal = GivenLocal
    /\ ReportedLevel("global_vs_local") = Whole(0)
    /\ ReportedLevel("quantitative_regime") = Whole(60)
    /\ outcome.value.summary.active_contradictions = 5
    /\ IsRatio(outcome.value.master_divergence_index, 6158, 10000)

\* the sources a validation report names in its issues
SourcesWithIssues(validation_report) ==
    {validation_report.issues[i] : i \in 1..Len(validation_report.issues)}

\* no source of the input files raises while it is processed
NoneRaises(files) == \A source_id \in SourceIds : files[source_id].condition # "raises"

\* C28: in ingest_all_data a missing, empty or unparseable input file is no
\* failure: the source gets its fallback or generic entry and counts as a
\* success.  success_count + len(issues) is 9 after every ingestion,
\* raw_data holds an entry for exactly the sources that are no issue, and
\* with no source raising (all input files absent among these cases)
\* success_count is 9, so that the success_count == 0 branch is not taken.
C28_MissingFileIsNoFailure ==
    /\ HasRun =>
          /\ \A i \in 1..Len(run.reports) :
                /\ run.reports[i].success_count + Len(run.reports[i].issues) = 9
                /\ run.reports[i].success_count
                      = Cardinality(SourceIds \ SourcesWithIssues(run.reports[i]))
          /\ \A i \in WrittenFiles("json") :
                LET content == run.written[i].content
                IN  /\ DOMAIN content.raw_data
                          = SourceIds \ SourcesWithIssues(content.validation_report)
                    /\ Cardinality(DOMAIN content.raw_data)
                          = content.validation_report.success_count
    /\ \A files \in InputFiles :
          NoneRaises(files) =>
              /\ IngestAllData(files).validation_report.success_count = 9
              /\ IngestAllData(files).validation_report.issues = << >>
              /\ DOMAIN IngestAllData(files).raw_data = SourceIds

\* publish_daily has run with no input file present: all nine sources are
\* successes with fallback and generic entries, nothing is an issue, and
\* the publication is generated and saved
C28_Witness ==
    /\ run.op = "daily"
    /\ run.results = TRUE
    /\ run.reports[1].success_count = 9
    /\ run.reports[1].issues = << >>
    /\ \E i \in WrittenFiles("json") :
          LET ingested == run.written[i].content.raw_data
          IN  /\ DOMAIN ingested = SourceIds
              /\ ingested["market_dashboard"].status = "fallback"
              /\ ingested["sector_sentiment"].status = "fallback"
              /\ ingested["nifty_mrn"] = [mi_duration |-> 14, max_duration |-> 21]
              /\ ingested["hyg_credit"] = [status |-> "parsed", source |-> "hyg_credit"]

\* the order of the steps in publish_daily and publish_weekly
Pipeline == << "ingest", "score", "render", "write_html", "write_json" >>

\* the steps the run took for the publication, in the order it took them
StepSequenceOf(publication) ==
    SelectSeq(run.steps, LAMBDA taken : taken.publication = publication)

\* C29: publish_daily and publish_weekly take their steps in the order
\* ingest, score, render, write HTML, write JSON, stopping at the first that
\* fails; the flag is True only if all five were taken and both files are
\* written; the HTML file is written before the JSON file; and when the
\* JSON file cannot be written the flag is False while the HTML file stays
\* written.
C29_StepsInOrderHtmlBeforeJson ==
    HasRun =>
        \A publication \in {"daily", "weekly"} :
            StepsOf(publication) # {} =>
                /\ Len(StepSequenceOf(publication)) <= Len(Pipeline)
                /\ \A k \in 1..Len(StepSequenceOf(publication)) :
                      StepSequenceOf(publication)[k] = Step(publication, Pipeline[k])
                /\ FlagOf(publication) = TRUE =>
                      /\ Len(StepSequenceOf(publication)) = Len(Pipeline)
                      /\ Wrote(publication, "html")
                      /\ Wrote(publication, "json")
                /\ \A i, j \in 1..Len(run.written) :
                      (/\ run.written[i].path = OutputFile(publication, "html")
                       /\ run.written[j].path = OutputFile(publication, "json"))
                          => i < j
                /\ Wrote(publication, "json") => Wrote(publication, "html")
                /\ (Took(publication, "write_json") /\ ~Wrote(publication, "json")) =>
                      /\ FlagOf(publication) = FALSE
                      /\ Wrote(publication, "html")

\* publish_daily has run for the Thursday, all five steps were taken, the
\* JSON file could not be opened: the method returned False and the HTML
\* file, the only file written, is left in place
C29_Witness ==
    /\ run.op = "daily"
    /\ run.args = << Thursday20250605 >>
    /\ StepSequenceOf("daily") = [k \in 1..5 |-> Step("daily", Pipeline[k])]
    /\ run.results = FALSE
    /\ Len(run.written) = 1
    /\ run.written[1].path = OutputFile("daily", "html")
    /\ run.written[1].content.publication = "daily"

\* both versions have returned for the same snapshot
BothReturned == PassReturned /\ analysis.kind = "return"

\* C30: for every raw_data with max_duration > 0, analyze_frameworks of
\* Publish.py (five frameworks, CRITICAL from two critical ones on) and
\* calculate_master_divergence_index of publish.py (seven frameworks,
\* CRITICAL from three on) return the same system_status, CRITICAL, while
\* their counts differ: 5 against 7 contradictions, 2 against 4 or 5
\* critical frameworks; the index of Publish.py is the divergence divided by
\* 1000, that of publish.py the weighted sum.
C30_VersionsAgreeOnSystemStatus ==
    BothReturned =>
        /\ GivenMaxDuration > 0
        /\ analysis.value.summary.system_status = outcome.value.system_status
        /\ analysis.value.summary.system_status = CRITICAL
        /\ analysis.value.summary.total_contradictions = 5
        /\ outcome.value.summary.total_contradictions = 7
        /\ analysis.value.summary.critical_frameworks = 2
        /\ outcome.value.critical_frameworks \in {4, 5}
        /\ IsRatio(analysis.value.summary.master_divergence_index,
                   outcome.value.summary.divergence_percentage.n,
                   outcome.value.summary.divergence_percentage.d * 1000)
        /\ AtLeast(outcome.value.master_divergence_index, Rat(6158, 10000))

\* both versions have returned for global 1.0, local 1.0 and 3 of 5 days:
\* Publish.py counts 2 critical frameworks of 5 with the index 0 and the
\* regime NORMAL at 3/21, publish.py counts 4 of 7 with the index 0.6158 and
\* the regime NORMAL at 3/5, and both report CRITICAL
C30_Witness ==
    /\ BothReturned
    /\ GivenGlobal = 100 /\ GivenLocal = 100
    /\ GivenMrnDuration = 3 /\ GivenMaxDuration = 5
    /\ analysis.value.summary.critical_frameworks = 2
    /\ analysis.value.summary.master_divergence_index = Whole(0)
    /\ analysis.value.contradictions["global_vs_local"].status = HIGH
    /\ IsRatio(analysis.value.contradictions["quantitative_regime"].level, 300, 21)
    /\ outcome.value.critical_frameworks = 4
    /\ ReportedStatus("global_vs_local") = NORMAL
    /\ ReportedLevel("quantitative_regime") = Whole(60)
    /\ IsRatio(outcome.value.master_divergence_index, 6158, 10000)
    /\ analysis.value.summary.system_status = CRITICAL
    /\ outcome.value.system_status = CRITICAL

====
